---- MODULE Spec2Model ----
(***************************************************************************)
(* mkcert: the store facade (main.go) and the trust-store backends         *)
(* (truststore/*.go) as a state machine.  One behaviour is a machine with  *)
(* a fixed configuration on which mkcert is invoked several times; every   *)
(* invocation is a fresh process that runs Run() step by step.             *)
(*                                                                         *)
(* Strings the code takes apart (names, tool output, TRUST_STORES) are     *)
(* sequences of tokens; strings it only compares are TLA+ strings.         *)
(***************************************************************************)
EXTENDS Integers, Sequences, FiniteSets, TLC

VARIABLES
    env,                \* the machine: binaries, directories, JAVA_HOME, uid
    files,              \* path -> content ("" when the path does not exist)
    sysTrust,           \* the system trust bundle holds the CA
    nssdb,              \* NSS database (prefix:profile) -> entries under the CA nickname
    keystore,           \* Java cacerts: entries under the CA alias
    pc,                 \* position of the running invocation inside Run()
    mode,               \* "install" | "uninstall" | "generate"
    stores,             \* $TRUST_STORES of the invocation, a token sequence
    args,               \* the requested names, as Run holds them
    input,              \* the requested names, as given on the command line
    warning,            \* Run's local: some enabled store lacks the CA
    ignoreCheckFailure, \* mkcert.ignoreCheckFailure
    sudoWarned,         \* the process's sudo warning has been emitted
    faultKind,          \* the command a stub makes fail in this invocation
    faultLeft,          \* how many more executions of it fail
    cmds,               \* the external commands the invocation has executed
    out,                \* what the invocation has logged
    ops,                \* the backend operations the invocation has made
    exit,               \* how the invocation ended: "" | "ok" | "fatal" | "panic"
    exitAt,             \* the position at which it ended
    issued,             \* what makeCert wrote: certificate and key file names
    hist,               \* backend -> what the invocations so far did on it
    runs,               \* invocations started so far
    once,               \* backend -> its sync.Once and the package variables its discovery sets
    gor,                \* goroutine -> its position in a call of HasJava, HasKeytool, HasNSS or HasCertutil
    linux               \* the package variables InitPlatform sets, and how often it has set them

vars == <<env, files, sysTrust, nssdb, keystore, pc, mode, stores, args, input,
          warning, ignoreCheckFailure, sudoWarned, faultKind, faultLeft, cmds, out,
          ops, exit, exitAt, issued, hist, runs, once, gor, linux>>

---------------------------------------------------------------------------
(* Bounds of the model *)

\* invocations of mkcert in one behaviour
MaxRuns == 2
\* executions of the stubbed command that fail in one invocation
MaxFail == 2
MaxClean == 3
MaxNames == 2
\* invocations on a root directory left behind by earlier use
MaxCA == 2
\* processes that call the command runners directly, and calls in one of them
MaxProc == 1
MaxCalls == 3
\* processes on a Mac in one behaviour
MaxMac == 2
\* goroutines of one process that ask the backends' discoveries
MaxGo == 2
\* calls of the discoveries in one process
MaxInit == 3

---------------------------------------------------------------------------
(* Token sequences *)

RECURSIVE Str(_)
\* the string a token sequence spells
Str(s) == IF s = <<>> THEN "" ELSE Head(s) \o Str(Tail(s))

\* bytes.Contains / strings.Contains on token sequences
Contains(s, sub) ==
    \E i \in 0..(Len(s) - Len(sub)) :
        \A j \in 1..Len(sub) : s[i + j] = sub[j]

\* strings.Replace(s, old, new, -1) for a one-token old
Replace(s, old, new) == [i \in DOMAIN s |-> IF s[i] = old THEN new ELSE s[i]]

RECURSIVE Remove(_, _)
\* bytes.Replace(s, old, nil, -1) for a one-token old
Remove(s, old) ==
    IF s = <<>> THEN <<>>
    ELSE IF Head(s) = old THEN Remove(Tail(s), old)
    ELSE <<Head(s)>> \o Remove(Tail(s), old)

RECURSIVE Split(_, _)
\* strings.Split(s, sep) for a one-token sep: the pieces between separators,
\* each spelled out; the empty string splits into one empty piece
Split(s, sep) ==
    IF \A i \in DOMAIN s : s[i] # sep THEN <<Str(s)>>
    ELSE LET k == CHOOSE i \in DOMAIN s :
                      s[i] = sep /\ \A j \in 1..(i - 1) : s[j] # sep
         IN <<Str(SubSeq(s, 1, k - 1))>> \o Split(SubSeq(s, k + 1, Len(s)), sep)

Range(s) == {s[i] : i \in DOMAIN s}

\* the value v handed on to what follows it
Bind(v, F(_)) == F(v)

\* strings.ToUpper on a hex digest
ToUpper(fp) ==
    LET up == [t \in {"a1", "0f", "c3", "9d", "4e"} |->
                  CASE t = "a1" -> "A1" [] t = "0f" -> "0F" [] t = "c3" -> "C3"
                    [] t = "9d" -> "9D" [] OTHER -> "4E"]
    IN [i \in DOMAIN fp |-> IF fp[i] \in DOMAIN up THEN up[fp[i]] ELSE fp[i]]

---------------------------------------------------------------------------
(* The CA and its files *)

rootName == "rootCA.pem"
rootKeyName == "rootCA-key.pem"
CAROOT == "/caroot"
HOME == "/home/u"
JAVA_HOME == "/jvm"

\* the serial number of the CA certificate on disk
caSerial == "7"

\* main.go caUniqueName: the lookup key in every backend
caUniqueName(serial) == <<"mkcert", " ", "development", " ", "CA", " ", serial>>

\* the CA of the invocation: m.ca
ca == [FileName |-> rootName,
       UniqueName |-> caUniqueName(caSerial),
       sha1 |-> <<"a1", "0f">>,
       sha256 |-> <<"c3", "9d", "4e">>]

\* filepath.Join(dir, name): a file of a directory
JoinPath(dir, name) == dir \o "/" \o name

caCertPath == JoinPath(CAROOT, rootName)
caKeyPath == JoinPath(CAROOT, rootKeyName)

---------------------------------------------------------------------------
(* Errors: truststore.Error carries a fatal and/or a warning cause *)

NoFatal == [set |-> FALSE, cmd |-> <<>>, out |-> <<>>, cause |-> ""]

NoWarning == [type |-> "", err |-> ""]

\* the nil error
Nil == [Fatal |-> NoFatal, Warning |-> NoWarning, Op |-> ""]

\* a variant of fatalCmdErr that drops the output of the command
fatalErrBare(err, cmd, output) ==
    [Fatal |-> [set |-> TRUE, cmd |-> cmd, out |-> <<>>, cause |-> err],
     Warning |-> NoWarning, Op |-> ""]

\* truststore.go fatalCmdErr: wraps err, names the command (cmd, the words of
\* the name), carries its output
fatalCmdErr(err, cmd, output) ==
    [Fatal |-> [set |-> TRUE, cmd |-> cmd, out |-> output, cause |-> err],
     Warning |-> NoWarning, Op |-> ""]

\* an error that is no truststore.Error: the facade takes it as fatal
PlainErr(err) ==
    [Fatal |-> [set |-> TRUE, cmd |-> <<>>, out |-> <<>>, cause |-> err],
     Warning |-> NoWarning, Op |-> ""]

\* truststore.Error{Op: op, Warning: w}, w of Go type type: "NSSError",
\* "PlatformError" or "error"
WarningErr(type, w, op) == [Fatal |-> NoFatal, Warning |-> [type |-> type, err |-> w], Op |-> op]

ErrNoCertutil == "no certutil tooling"
ErrNoNSS == "no NSS browser"
ErrNoNSSDB == "no NSS database"
ErrUnknownNSS == "unknown NSS install"
ErrUnsupportedDistro == "unsupported Linux distrobution"
ErrNoKeytool == "no keytool"
ErrNoSudo == "no sudo"

---------------------------------------------------------------------------
(* The state a backend operation reads and changes, threaded through it *)

Cur == [files |-> files, sysTrust |-> sysTrust, nssdb |-> nssdb,
        keystore |-> keystore, faultLeft |-> faultLeft,
        sudoWarned |-> sudoWarned, cmds |-> cmds, out |-> out]

ReadFile(f, p) == IF p \in DOMAIN f THEN f[p] ELSE ""

WriteFile(f, p, c) == [q \in (DOMAIN f) \cup {p} |-> IF q = p THEN c ELSE f[q]]

Log(s, line) == [s EXCEPT !.out = Append(@, line)]

---------------------------------------------------------------------------
(* System CA-directory strategy: the known anchor directories *)

AnchorDir == <<"/etc/pki/ca-trust/source/anchors",
               "/usr/local/share/ca-certificates",
               "/etc/ca-certificates/trust-source/anchors",
               "/usr/share/pki/trust/anchors">>

AnchorExt == <<".pem", ".crt", ".crt", ".pem">>

AnchorCmd == <<  <<"update-ca-trust", "extract">>,
                 <<"update-ca-certificates">>,
                 <<"trust", "extract-compat">>,
                 <<"update-ca-certificates">>  >>

\* a variant of InitPlatform in which a later anchor directory that exists
\* overrides an earlier one
InitPlatformLast(e) ==
    LET help == IF "apt" \in e.bins THEN "apt install libnss3-tools"
                ELSE IF "yum" \in e.bins THEN "yum install nss-tools"
                ELSE IF "zypper" \in e.bins THEN "zypper install mozilla-nss-tools"
                ELSE ""
        last == IF 4 \in e.dirs THEN 4
                ELSE IF 3 \in e.dirs THEN 3
                ELSE IF 2 \in e.dirs THEN 2
                ELSE IF 1 \in e.dirs THEN 1
                ELSE 0
    IN [CertutilInstallHelp |-> help,
        SystemTrustFilename |-> IF last = 0 THEN <<"", "">>
                                ELSE <<AnchorDir[last], AnchorExt[last]>>,
        SystemTrustCommand |-> IF last = 0 THEN <<>> ELSE AnchorCmd[last]]

\* truststore_linux.go InitPlatform: the install hint, the anchor file name
\* pattern (directory, extension) and the refresh command of the first
\* anchor directory that exists; pattern and command stay unset when none does
InitPlatform(e) ==
    LET help == IF "apt" \in e.bins THEN "apt install libnss3-tools"
                ELSE IF "yum" \in e.bins THEN "yum install nss-tools"
                ELSE IF "zypper" \in e.bins THEN "zypper install mozilla-nss-tools"
                ELSE ""
        first == IF 1 \in e.dirs THEN 1
                 ELSE IF 2 \in e.dirs THEN 2
                 ELSE IF 3 \in e.dirs THEN 3
                 ELSE IF 4 \in e.dirs THEN 4
                 ELSE 0
    IN [CertutilInstallHelp |-> help,
        SystemTrustFilename |-> IF first = 0 THEN <<"", "">>
                                ELSE <<AnchorDir[first], AnchorExt[first]>>,
        SystemTrustCommand |-> IF first = 0 THEN <<>> ELSE AnchorCmd[first]]

\* SystemTrustFilename, SystemTrustCommand, CertutilInstallHelp as declared
ZeroPlatform ==
    [CertutilInstallHelp |-> "", SystemTrustFilename |-> <<"", "">>, SystemTrustCommand |-> <<>>]

\* InitPlatform as the assignments it makes to the package variables v on
\* machine e: a variable whose switch has no matching case keeps its value
InitPlatformOn(v, e) ==
    [CertutilInstallHelp |-> IF e.bins \cap {"apt", "yum", "zypper"} = {}
                             THEN v.CertutilInstallHelp
                             ELSE InitPlatform(e).CertutilInstallHelp,
     SystemTrustFilename |-> IF e.dirs \cap (1..4) = {} THEN v.SystemTrustFilename
                             ELSE InitPlatform(e).SystemTrustFilename,
     SystemTrustCommand |-> IF e.dirs \cap (1..4) = {} THEN v.SystemTrustCommand
                            ELSE InitPlatform(e).SystemTrustCommand]

\* s.InitPlatform() run once more; on darwin it has an empty body
RunInitPlatform(l, e) ==
    IF e.goos = "darwin" THEN l
    ELSE [writes |-> l.writes + 1, vars |-> InitPlatformOn(l.vars, e)]

\* fmt.Sprintf(SystemTrustFilename, name) for the pattern "<dir>/%s<ext>"
Sprintf(pattern, name) == pattern[1] \o "/" \o name \o pattern[2]

\* a variant of systemTrustFilename that names the root certificate itself
rootFilename(plat, c) == JoinPath(CAROOT, rootName)

\* truststore_linux.go systemTrustFilename: spaces of the unique name become '_'
systemTrustFilename(plat, c) ==
    Sprintf(plat.SystemTrustFilename, Str(Replace(c.UniqueName, " ", "_")))

legacyFilename(plat) == Sprintf(plat.SystemTrustFilename, "mkcert-rootCA")

---------------------------------------------------------------------------
(* External commands.  A command is its tool, its arguments, whether it    *)
(* runs under sudo and the environment forced on it.                       *)

Command(name, argv) == [name |-> name, argv |-> argv, sudo |-> FALSE, env |-> <<>>, stdin |-> ""]

NssCand == << HOME \o "/.pki/nssdb",
              HOME \o "/snap/chromium/current/.pki/nssdb",
              "/etc/pki/nssdb",
              HOME \o "/.mozilla/firefox/p1" >>

\* the command runs with superuser rights
Priv(c) == env.uid0 \/ c.sudo

\* a result of running a command: combined output and the error
Ran(s, output, err) == [out |-> output, err |-> err, s |-> s]

ExitErr == "exit status"

\* certutil against one database: -V validates the nickname, -A imports
\* under it, -D deletes it; a database the user cannot write opens read-only
Certutil(s, c) ==
    LET op == c.argv[1]
        db == c.argv[3]
        n == IF db \in DOMAIN s.nssdb THEN s.nssdb[db] ELSE 0
        ro == ~Priv(c) /\ \E i \in env.roProfiles :
                              db \in {"sql:" \o NssCand[i], "dbm:" \o NssCand[i]}
    IN CASE op = "-V" ->
              IF n > 0 THEN Ran(s, <<"certutil:", "certificate is valid">>, "")
              ELSE Ran(s, <<"certutil:", "could not find certificate">>, ExitErr)
         [] op = "-A" ->
              IF ro THEN Ran(s, <<"certutil:", "SEC_ERROR_READ_ONLY">>, ExitErr)
              ELSE Ran([s EXCEPT !.nssdb = WriteFile(@, db, IF n = 0 THEN 1 ELSE n)],
                       <<>>, "")
         [] op = "-D" ->
              IF n = 0 THEN Ran(s, <<"certutil:", "could not find certificate">>, ExitErr)
              ELSE IF ro THEN Ran(s, <<"certutil:", "SEC_ERROR_READ_ONLY">>, ExitErr)
              ELSE Ran([s EXCEPT !.nssdb = WriteFile(@, db, 0)], <<>>, "")
         [] OTHER -> Ran(s, <<"certutil:", "bad usage">>, ExitErr)

RECURSIVE Colons(_)
\* a fingerprint as keytool prints it: octet pairs delimited by ":"
Colons(fp) ==
    IF Len(fp) <= 1 THEN fp ELSE <<Head(fp), ":">> \o Colons(Tail(fp))

\* what keytool -list prints for a keystore with n entries of the CA: the
\* stock entry, then the CA's, with SHA1 (before Java 9) or SHA-256 digests
Listing(n) ==
    <<"Keystore type: jks", "Your keystore contains entries">>
    \o <<"stockca", "trustedCertEntry", "Certificate fingerprint:">>
    \o Colons(<<"5B", "E2", "77">>)
    \o (IF n = 0 THEN <<>>
        ELSE <<Str(ca.UniqueName), "trustedCertEntry", "Certificate fingerprint:">>
             \o Colons(ToUpper(IF env.javaFp = "sha1" THEN ca.sha1 ELSE ca.sha256)))

\* the value following flag in an argument list
ArgOf(argv, flag) ==
    IF \E i \in 1..(Len(argv) - 1) : argv[i] = flag
    THEN argv[(CHOOSE i \in 1..(Len(argv) - 1) : argv[i] = flag) + 1]
    ELSE ""

\* keytool against the keystore named by -keystore: -list prints the
\* entries, -importcert adds the alias, -delete removes it; a keystore the
\* user cannot write fails with the file-not-found signature
Keytool(s, c) ==
    LET op == c.argv[1]
        ks == ArgOf(c.argv, "-keystore")
        ro == ~Priv(c) /\ env.javaRO
    IN CASE ks = "" ->
              Ran(s, <<"keytool error:", "Keystore file", "does not exist">>, ExitErr)
         [] op = "-list" -> Ran(s, Listing(s.keystore), "")
         [] op = "-importcert" ->
              IF s.keystore > 0
              THEN Ran(s, <<"keytool error:", "Certificate not imported, alias",
                            "already exists">>, ExitErr)
              ELSE IF ro
              THEN Ran(s, <<"keytool error:", "java.io.FileNotFoundException",
                            "(Permission denied)">>, ExitErr)
              ELSE Ran([s EXCEPT !.keystore = 1], <<"Certificate was added to keystore">>, "")
         [] op = "-delete" ->
              IF s.keystore = 0
              THEN Ran(s, <<"keytool error:", "Alias", "does not exist">>, ExitErr)
              ELSE IF ro
              THEN Ran(s, <<"keytool error:", "java.io.FileNotFoundException",
                            "(Permission denied)">>, ExitErr)
              ELSE Ran([s EXCEPT !.keystore = 0], <<>>, "")
         [] OTHER -> Ran(s, <<"keytool error:", "Illegal option">>, ExitErr)

\* the file names an anchor directory can hold in this model
AnchorNames(i) ==
    { Str(Replace(ca.UniqueName, " ", "_")) \o AnchorExt[i],
      Str(ca.UniqueName) \o AnchorExt[i],
      "mkcert-rootCA" \o AnchorExt[i] }

\* the refresh command rebuilds the system bundle from the anchor
\* directories of its distribution family
Refresh(s, c) ==
    IF ~Priv(c) THEN Ran(s, <<Head(c.argv), "Permission denied">>, ExitErr)
    ELSE Ran([s EXCEPT !.sysTrust =
                 \E i \in env.dirs :
                     /\ AnchorCmd[i] = <<c.name>> \o c.argv
                     /\ \E n \in AnchorNames(i) :
                            ReadFile(s.files, JoinPath(AnchorDir[i], n)) = "CERT"],
             <<>>, "")

\* tee writes its standard input to the file; rm -f removes it
FileTool(s, c) ==
    LET p == c.argv[Len(c.argv)]
    IN IF ~Priv(c) THEN Ran(s, <<c.name \o ":", "Permission denied">>, ExitErr)
       ELSE IF c.name = "tee" THEN Ran([s EXCEPT !.files = WriteFile(@, p, c.stdin)], <<>>, "")
       ELSE Ran([s EXCEPT !.files = WriteFile(@, p, "")], <<>>, "")

\* the admin trust settings of macOS, kept as a property list
AdminTrust == "/Library/Security/Trust Settings/Admin.plist"

\* the trust-list key of the CA (its certificate's SHA-1)
CAKey == "ca"

\* the subject of the CA and of another authority, as attribute lists
CASubject == << <<"O", "mkcert development CA">>, <<"CN", "mkcert u@host">> >>
CorpSubject == << <<"O", "Corp">>, <<"CN", "Corp Root">> >>

RECURSIVE RDNs(_)
\* the DER elements of the relative distinguished names of a subject
RDNs(subject) ==
    IF subject = <<>> THEN <<>>
    ELSE <<"SET", "SEQUENCE", "OID " \o Head(subject)[1], "UTF8 " \o Head(subject)[2]>>
             \o RDNs(Tail(subject))

\* asn1.Marshal(subject.ToRDNSequence()): a SEQUENCE of the names
asn1Marshal(subject) == <<"SEQUENCE", Len(subject)>> \o RDNs(subject)

\* a trust-list entry without trust settings of its own
PlainEntry(issuer) ==
    [hasIssuer |-> TRUE, issuerName |-> issuer, hasTrust |-> FALSE, trustSettings |-> <<>>]

\* the data of a property-list file, and data that is no property list
PlistData(root) == [format |-> "plist", root |-> root]
Garbage == [format |-> "garbage", root |-> <<>>]

\* an injected failure of an operating-system call of the process
OsFails(what) == faultKind.name = "os" /\ faultKind.op = what

\* security(1): add-trusted-cert enters the certificate in the admin trust
\* settings, trust-settings-export writes them to a file,
\* trust-settings-import replaces them by a file's, remove-trusted-cert
\* takes the certificate out; all of them need the superuser
Security(s, c) ==
    LET sub == Head(c.argv)
        path == c.argv[Len(c.argv)]
        root == s.files[AdminTrust]
    IN IF ~Priv(c) THEN Ran(s, <<"security:", "authorization denied">>, ExitErr)
       ELSE CASE sub = "add-trusted-cert" ->
                   IF ReadFile(s.files, path) # "CERT"
                   THEN Ran(s, <<"security:", "error reading file">>, ExitErr)
                   ELSE IF CAKey \in DOMAIN root.trustList THEN Ran(s, <<>>, "")
                   ELSE Ran([s EXCEPT !.files[AdminTrust].trustList =
                                [k \in DOMAIN root.trustList \cup {CAKey} |->
                                    IF k = CAKey THEN PlainEntry(asn1Marshal(CASubject))
                                    ELSE root.trustList[k]]],
                            <<>>, "")
              [] sub = "trust-settings-export" ->
                   Ran([s EXCEPT !.files = WriteFile(@, path,
                            IF OsFails("parse") THEN Garbage ELSE PlistData(root))],
                       <<"...Trust Settings exported">>, "")
              [] sub = "trust-settings-import" ->
                   IF path \notin DOMAIN s.files \/ s.files[path].format # "plist"
                   THEN Ran(s, <<"security:", "error reading file">>, ExitErr)
                   ELSE Ran([s EXCEPT !.files[AdminTrust] = s.files[path].root], <<>>, "")
              [] sub = "remove-trusted-cert" ->
                   Ran([s EXCEPT !.files[AdminTrust].trustList =
                            [k \in DOMAIN root.trustList \ {CAKey} |-> root.trustList[k]]],
                       <<>>, "")
              [] OTHER -> Ran(s, <<"security:", "bad usage">>, ExitErr)

\* certutil where Homebrew links it, and the prefix brew prints for nss
HomebrewCertutil == "/usr/local/opt/nss/bin/certutil"
BrewPrefix == "/opt/homebrew/opt/nss"

\* filepath.Join(dir, "bin", "certutil"), an empty dir is left out
JoinBin(dir) == IF dir = "" THEN "bin/certutil" ELSE dir \o "/bin/certutil"

\* the tool a command path runs
ToolOf(name) ==
    CASE name \in {"/usr/bin/certutil", HomebrewCertutil, JoinBin(BrewPrefix)} -> "certutil"
      [] name = JoinPath(JAVA_HOME, "bin/keytool") -> "keytool"
      [] name = JoinPath(JAVA_HOME, "bin/keytool.exe") -> "keytool"
      [] OTHER -> name

\* a failing tool, as stub_cmd of the test harness makes one: the first
\* faultLeft executions of the tool and sub-command fail with the given
\* output (the harness's stub fails once; a broken tool fails again)
Stubbed(s, c) ==
    /\ s.faultLeft > 0
    /\ faultKind.name = ToolOf(c.name)
    /\ (faultKind.op = "" \/ (c.argv # <<>> /\ faultKind.op = Head(c.argv)))

\* CmdFS.Exec: runs the command to completion, combined output and error;
\* the execution is noted in cmds
Exec(s, c) ==
    Bind(IF Stubbed(s, c)
         THEN Ran([s EXCEPT !.faultLeft = @ - 1], faultKind.out, ExitErr)
         ELSE CASE ToolOf(c.name) = "certutil" -> Certutil(s, c)
                [] ToolOf(c.name) = "keytool" -> Keytool(s, c)
                [] c.name \in {"tee", "rm"} -> FileTool(s, c)
                [] c.name = "security" -> Security(s, c)
                [] \E i \in 1..4 : Head(AnchorCmd[i]) = c.name -> Refresh(s, c)
                [] OTHER -> Ran(s, <<>>, "executable file not found"),
         LAMBDA r : [r EXCEPT !.s.cmds = Append(@, [cmd |-> c, err |-> r.err, out |-> r.out])])

\* a variant of SudoExec that warns on every call without sudo
SudoExecWarnAlways(s, c) ==
    IF env.uid0 THEN Exec(s, c)
    ELSE IF "sudo" \notin env.bins
    THEN Bind(Exec(s, c), LAMBDA r : [r EXCEPT !.err = ErrNoSudo, !.s.sudoWarned = TRUE])
    ELSE Exec(s, [c EXCEPT !.sudo = TRUE])

\* rootFS.SudoExec: as Exec for the superuser; without sudo, Exec, and the
\* first such call of the process wraps whatever error Exec gave, nil
\* included, in the sudo warning; otherwise the command runs under sudo
SudoExec(s, c) ==
    IF env.uid0 THEN Exec(s, c)
    ELSE IF "sudo" \notin env.bins
    THEN Bind(Exec(s, c),
              LAMBDA r : IF r.s.sudoWarned THEN r
                         ELSE [r EXCEPT !.err = ErrNoSudo, !.s.sudoWarned = TRUE])
    ELSE Exec(s, [c EXCEPT !.sudo = TRUE])

\* Store.CommandWithSudo followed by CombinedOutput: the command as it is for
\* the superuser; without sudo, the one-time warning and the command as it
\* is; otherwise the command under sudo
CommandWithSudo(s, c) ==
    IF env.uid0 THEN Exec(s, c)
    ELSE IF "sudo" \notin env.bins
    THEN Exec(IF s.sudoWarned THEN s
              ELSE Log([s EXCEPT !.sudoWarned = TRUE], "Warning: sudo is not available"), c)
    ELSE Exec(s, [c EXCEPT !.sudo = TRUE])

---------------------------------------------------------------------------
(* NSS backend: truststore_nss.go *)

\* an assignment to a package variable
Set(var, val) == [var |-> var, val |-> val]

\* brew --prefix nss on machine e: no brew, a brew that fails with a
\* message, one that prints the prefix and exits non-zero, one that prints
\* the prefix; the output as the words it consists of
Brew(e) ==
    CASE e.brew = "ok" -> [out |-> <<BrewPrefix, "\n">>, err |-> ""]
      [] e.brew = "partial" -> [out |-> <<BrewPrefix, "\n">>, err |-> ExitErr]
      [] e.brew = "fails" -> [out |-> <<"Error:", " ", "No available formula", "\n">>,
                              err |-> ExitErr]
      [] OTHER -> [out |-> <<>>, err |-> "executable file not found"]

RECURSIVE TrimLeft(_)
TrimLeft(s) == IF s # <<>> /\ Head(s) \in {" ", "\n"} THEN TrimLeft(Tail(s)) ELSE s

RECURSIVE TrimRight(_)
TrimRight(s) ==
    IF s # <<>> /\ s[Len(s)] \in {" ", "\n"} THEN TrimRight(SubSeq(s, 1, Len(s) - 1)) ELSE s

\* strings.TrimSpace
TrimSpace(s) == TrimRight(TrimLeft(s))

\* a variant of the darwin case that uses brew's output when brew succeeded
DarwinCertutilOnSuccess(e) ==
    IF "certutil" \in e.bins
    THEN <<Set("certutilPath", "/usr/bin/certutil"), Set("hasCertutil", TRUE)>>
    ELSE IF HomebrewCertutil \in e.certutils
    THEN <<Set("certutilPath", HomebrewCertutil), Set("hasCertutil", TRUE)>>
    ELSE IF Brew(e).err = ""
    THEN <<Set("certutilPath", JoinBin(Str(TrimSpace(Brew(e).out)))),
           Set("hasCertutil", JoinBin(Str(TrimSpace(Brew(e).out))) \in e.certutils)>>
    ELSE <<>>

\* InitNSS, case "darwin", as the assignments it makes: certutil on the
\* PATH, else at the Homebrew default path, else brew --prefix nss is run
\* and, when it returned an error, its output gives the path and the
\* existence of that path the availability
DarwinCertutil(e) ==
    IF "certutil" \in e.bins
    THEN <<Set("certutilPath", "/usr/bin/certutil"), Set("hasCertutil", TRUE)>>
    ELSE IF HomebrewCertutil \in e.certutils
    THEN <<Set("certutilPath", HomebrewCertutil), Set("hasCertutil", TRUE)>>
    ELSE IF Brew(e).err # ""
    THEN <<Set("certutilPath", JoinBin(Str(TrimSpace(Brew(e).out)))),
           Set("hasCertutil", JoinBin(Str(TrimSpace(Brew(e).out))) \in e.certutils)>>
    ELSE <<>>

\* the value the assignments w leave in variable var, zero when none is to it
RECURSIVE Assigned(_, _, _)
Assigned(w, var, zero) ==
    IF w = <<>> THEN zero
    ELSE IF w[Len(w)].var = var THEN w[Len(w)].val
    ELSE Assigned(SubSeq(w, 1, Len(w) - 1), var, zero)

\* InitNSS: an NSS database or a Firefox exists; certutil and its path
InitNSS(e) ==
    LET plat == InitPlatform(e)
        has == "certutil" \in e.bins
    IN [hasNSS |-> e.firefox \/ \E i \in 1..3 : e.profiles[i] # "missing",
        hasCertutil |-> IF e.goos = "linux" THEN has
                        ELSE IF e.goos = "darwin"
                        THEN Assigned(DarwinCertutil(e), "hasCertutil", FALSE)
                        ELSE FALSE,
        certutilPath |-> IF e.goos = "linux" THEN (IF has THEN "/usr/bin/certutil" ELSE "")
                         ELSE IF e.goos = "darwin"
                         THEN Assigned(DarwinCertutil(e), "certutilPath", "")
                         ELSE "",
        CertutilInstallHelp |-> plat.CertutilInstallHelp]

\* HasNSS, asked by the facade as NSS.Check
HasNSS(e) == InitNSS(e).hasNSS

\* a variant of execCertutil that tries again after any failure
execCertutilAnyFailure(s, c) ==
    Bind(Exec(s, c),
         LAMBDA r : IF r.err # "" /\ env.goos # "windows" THEN SudoExec(r.s, c) ELSE r)

\* execCertutil: the command as it is; if it failed with the read-only
\* signature and the OS is not Windows, once more through SudoExec
execCertutil(s, c) ==
    Bind(Exec(s, c),
         LAMBDA r : IF /\ r.err # ""
                       /\ Contains(r.out, <<"SEC_ERROR_READ_ONLY">>)
                       /\ env.goos # "windows"
                    THEN SudoExec(r.s, c)
                    ELSE r)

\* the closures handed to forEachNSSProfile by CheckNSS, InstallNSS and
\* UninstallNSS: the error each returns for one profile, and the state after
ProfileFn(kind, s, nss, profile) ==
    LET name == Str(ca.UniqueName)
        verify == Command(nss.certutilPath, <<"-V", "-d", profile, "-u", "L", "-n", name>>)
    IN CASE kind = "check" ->
              Bind(Exec(s, verify),
                   LAMBDA r : [err |-> IF r.err = "" THEN Nil ELSE PlainErr(r.err), s |-> r.s])
         [] kind = "install" ->
              Bind(execCertutil(s, Command(nss.certutilPath,
                       <<"-A", "-d", profile, "-t", "C,,", "-n", name,
                         "-i", JoinPath(CAROOT, ca.FileName)>>)),
                   LAMBDA r :
                       [err |-> IF r.err = "" THEN Nil
                                ELSE fatalCmdErr(r.err, <<"certutil", "-A", "-d", profile>>, r.out),
                        s |-> r.s])
         [] OTHER ->
              Bind(Exec(s, verify),
                   LAMBDA v :
                       IF v.err # "" THEN [err |-> Nil, s |-> v.s]
                       ELSE Bind(execCertutil(v.s, Command(nss.certutilPath,
                                     <<"-D", "-d", profile, "-n", name>>)),
                                 LAMBDA r :
                                     [err |-> IF r.err = "" THEN Nil
                                              ELSE fatalCmdErr(r.err,
                                                       <<"certutil", "-D", "-d", profile>>, r.out),
                                      s |-> r.s]))

RECURSIVE forEachCert8First(_, _, _, _, _)
\* a variant of forEachNSSProfile that looks for cert8.db before cert9.db
forEachCert8First(kind, s, nss, i, found) ==
    IF i > Len(NssCand) THEN [found |-> found, err |-> Nil, s |-> s]
    ELSE IF env.profiles[i] \notin {"cert9", "cert8", "both"}
    THEN forEachCert8First(kind, s, nss, i + 1, found)
    ELSE Bind(ProfileFn(kind, s, nss,
                        (IF env.profiles[i] \in {"cert8", "both"} THEN "dbm:" ELSE "sql:")
                            \o NssCand[i]),
              LAMBDA r : IF r.err # Nil THEN [found |-> 0, err |-> r.err, s |-> r.s]
                         ELSE forEachCert8First(kind, r.s, nss, i + 1, found + 1))

RECURSIVE forEachSkipFailed(_, _, _, _, _)
\* a variant of forEachNSSProfile that goes on after a profile on which
\* the operation failed, not counting it
forEachSkipFailed(kind, s, nss, i, found) ==
    IF i > Len(NssCand) THEN [found |-> found, err |-> Nil, s |-> s]
    ELSE IF env.profiles[i] \notin {"cert9", "cert8", "both"}
    THEN forEachSkipFailed(kind, s, nss, i + 1, found)
    ELSE Bind(ProfileFn(kind, s, nss,
                        (IF env.profiles[i] \in {"cert9", "both"} THEN "sql:" ELSE "dbm:")
                            \o NssCand[i]),
              LAMBDA r : forEachSkipFailed(kind, r.s, nss, i + 1,
                                           IF r.err # Nil THEN found ELSE found + 1))

RECURSIVE forEachFrom(_, _, _, _, _)
\* forEachNSSProfile from candidate i on, found profiles counted so far
forEachFrom(kind, s, nss, i, found) ==
    IF i > Len(NssCand) THEN [found |-> found, err |-> Nil, s |-> s]
    ELSE IF env.profiles[i] \notin {"cert9", "cert8", "both"}
    THEN forEachFrom(kind, s, nss, i + 1, found)
    ELSE Bind(ProfileFn(kind, s, nss,
                        (IF env.profiles[i] \in {"cert9", "both"} THEN "sql:" ELSE "dbm:")
                            \o NssCand[i]),
              LAMBDA r : IF r.err # Nil THEN [found |-> 0, err |-> r.err, s |-> r.s]
                         ELSE forEachFrom(kind, r.s, nss, i + 1, found + 1))

\* forEachNSSProfile: the fixed databases, then the Firefox profiles
forEachNSSProfile(kind, s, nss) == forEachFrom(kind, s, nss, 1, 0)

Res(ok, err, s) == [ok |-> ok, err |-> err, s |-> s]

\* a variant of CheckNSS that imports the CA while it looks for it
CheckNSSImporting(s, nss) ==
    IF ~nss.hasCertutil THEN Res(FALSE, Nil, s)
    ELSE Bind(forEachNSSProfile("install", s, nss),
              LAMBDA r : Res(r.found # 0 /\ r.err = Nil, Nil, r.s))

\* a variant of CheckNSS that does not count the profiles
CheckNSSUncounted(s, nss) ==
    IF ~nss.hasCertutil THEN Res(FALSE, Nil, s)
    ELSE Bind(forEachNSSProfile("check", s, nss),
              LAMBDA r : Res(r.err = Nil, Nil, r.s))

\* CheckNSS
CheckNSS(s, nss) ==
    IF ~nss.hasCertutil THEN Res(FALSE, Nil, s)
    ELSE Bind(forEachNSSProfile("check", s, nss),
              LAMBDA r : Res(r.found # 0 /\ r.err = Nil, Nil, r.s))

\* the tool-missing results of InstallNSS and UninstallNSS
NoCertutilErr(nss, op) ==
    IF nss.CertutilInstallHelp = "" THEN WarningErr("NSSError", ErrNoNSS, op)
    ELSE WarningErr("NSSError", ErrNoCertutil, op)

\* a variant of InstallNSS that reports the missing tool when it found no
\* profile
InstallNSSNoProfileAsNoTool(s, nss) ==
    IF ~nss.hasCertutil THEN Res(FALSE, NoCertutilErr(nss, "install"), s)
    ELSE Bind(forEachNSSProfile("install", s, nss),
              LAMBDA r :
                  IF r.err # Nil THEN Res(FALSE, r.err, r.s)
                  ELSE IF r.found = 0
                  THEN Res(FALSE, WarningErr("NSSError", ErrNoCertutil, "install"), r.s)
                  ELSE Bind(CheckNSS(r.s, nss),
                            LAMBDA c : IF ~c.ok
                                       THEN Res(FALSE, WarningErr("error", ErrUnknownNSS, ""), c.s)
                                       ELSE Res(TRUE, Nil, c.s)))

\* a variant of InstallNSS that trusts its imports
InstallNSSUnverified(s, nss) ==
    IF ~nss.hasCertutil THEN Res(FALSE, NoCertutilErr(nss, "install"), s)
    ELSE Bind(forEachNSSProfile("install", s, nss),
              LAMBDA r :
                  IF r.err # Nil THEN Res(FALSE, r.err, r.s)
                  ELSE IF r.found = 0
                  THEN Res(FALSE, WarningErr("NSSError", ErrNoNSSDB, "install"), r.s)
                  ELSE Res(TRUE, Nil, r.s))

\* a variant of InstallNSS that looks at the count before the error
InstallNSSCountFirst(s, nss) ==
    IF ~nss.hasCertutil THEN Res(FALSE, NoCertutilErr(nss, "install"), s)
    ELSE Bind(forEachNSSProfile("install", s, nss),
              LAMBDA r :
                  IF r.found = 0
                  THEN Res(FALSE, WarningErr("NSSError", ErrNoNSSDB, "install"), r.s)
                  ELSE IF r.err # Nil THEN Res(FALSE, r.err, r.s)
                  ELSE Bind(CheckNSS(r.s, nss),
                            LAMBDA c : IF ~c.ok
                                       THEN Res(FALSE, WarningErr("error", ErrUnknownNSS, ""), c.s)
                                       ELSE Res(TRUE, Nil, c.s)))

\* InstallNSS
InstallNSS(s, nss) ==
    IF ~nss.hasCertutil THEN Res(FALSE, NoCertutilErr(nss, "install"), s)
    ELSE Bind(forEachNSSProfile("install", s, nss),
              LAMBDA r :
                  IF r.err # Nil THEN Res(FALSE, r.err, r.s)
                  ELSE IF r.found = 0
                  THEN Res(FALSE, WarningErr("NSSError", ErrNoNSSDB, "install"), r.s)
                  ELSE Bind(CheckNSS(r.s, nss),
                            LAMBDA c : IF ~c.ok
                                       THEN Res(FALSE, WarningErr("error", ErrUnknownNSS, ""), c.s)
                                       ELSE Res(TRUE, Nil, c.s)))

\* a variant of UninstallNSS that takes a failed delete for a success
UninstallNSSLenient(s, nss) ==
    IF ~nss.hasCertutil THEN Res(FALSE, NoCertutilErr(nss, "uninstall"), s)
    ELSE Bind(forEachNSSProfile("uninstall", s, nss),
              LAMBDA r : Res(TRUE, Nil, r.s))

\* UninstallNSS
UninstallNSS(s, nss) ==
    IF ~nss.hasCertutil THEN Res(FALSE, NoCertutilErr(nss, "uninstall"), s)
    ELSE Bind(forEachNSSProfile("uninstall", s, nss),
              LAMBDA r : Res(r.err = Nil, r.err, r.s))

---------------------------------------------------------------------------
(* Java backend: truststore_java.go *)

storePass == "changeit"

\* InitJava: the keytool of JAVA_HOME and the keystore, the jre/ location
\* taking precedence over lib/ when both exist
InitJava(e) ==
    LET bin == IF e.goos = "windows" THEN "bin/keytool.exe" ELSE "bin/keytool"
    IN [hasJava |-> e.javaHome,
        javaHome |-> IF e.javaHome THEN JAVA_HOME ELSE "",
        hasKeytool |-> e.javaHome /\ e.keytool,
        keytoolPath |-> IF e.javaHome /\ e.keytool THEN JoinPath(JAVA_HOME, bin) ELSE bin,
        cacertsPath |-> IF ~e.javaHome THEN ""
                        ELSE IF "jre" \in e.cacerts
                        THEN JAVA_HOME \o "/jre/lib/security/cacerts"
                        ELSE IF "lib" \in e.cacerts
                        THEN JAVA_HOME \o "/lib/security/cacerts"
                        ELSE ""]

\* a variant of exists that looks for the digest as it is, not upper-cased
existsAsIs(digest, keytoolOutput) == Contains(keytoolOutput, digest)

\* CheckJava's exists: the upper-case hex digest is in the keytool output
exists(digest, keytoolOutput) == Contains(keytoolOutput, ToUpper(digest))

\* a variant of execKeytool whose second run has the environment of the first
execKeytoolSameEnv(s, java, c) ==
    Bind(Exec(s, c),
         LAMBDA r : IF /\ r.err # ""
                       /\ Contains(r.out, <<"java.io.FileNotFoundException">>)
                       /\ env.goos # "windows"
                    THEN SudoExec(r.s, c)
                    ELSE r)

\* execKeytool: the command as it is; if it failed with the file-not-found
\* signature and the OS is not Windows, once more through SudoExec with
\* JAVA_HOME in the environment
execKeytool(s, java, c) ==
    Bind(Exec(s, c),
         LAMBDA r : IF /\ r.err # ""
                       /\ Contains(r.out, <<"java.io.FileNotFoundException">>)
                       /\ env.goos # "windows"
                    THEN SudoExec(r.s, [c EXCEPT !.env = <<"JAVA_HOME=" \o java.javaHome>>])
                    ELSE r)

\* a variant of CheckJava that looks for the SHA-1 fingerprint only
CheckJavaSha1Only(s, java) ==
    IF ~java.hasKeytool THEN Res(FALSE, Nil, s)
    ELSE Bind(Exec(s, Command(java.keytoolPath,
                  <<"-list", "-keystore", java.cacertsPath, "-storepass", storePass>>)),
              LAMBDA r :
                  IF r.err # "" THEN Res(FALSE, fatalCmdErr(r.err, <<"keytool", "-list">>, r.out), r.s)
                  ELSE Res(exists(ca.sha1, Remove(r.out, ":")), Nil, r.s))

\* CheckJava
CheckJava(s, java) ==
    IF ~java.hasKeytool THEN Res(FALSE, Nil, s)
    ELSE Bind(Exec(s, Command(java.keytoolPath,
                  <<"-list", "-keystore", java.cacertsPath, "-storepass", storePass>>)),
              LAMBDA r :
                  IF r.err # "" THEN Res(FALSE, fatalCmdErr(r.err, <<"keytool", "-list">>, r.out), r.s)
                  ELSE Res(\/ exists(ca.sha1, Remove(r.out, ":"))
                           \/ exists(ca.sha256, Remove(r.out, ":")),
                           Nil, r.s))

\* InstallJava
InstallJava(s, java) ==
    Bind(execKeytool(s, java, Command(java.keytoolPath,
             <<"-importcert", "-noprompt", "-keystore", java.cacertsPath,
               "-storepass", storePass, "-file", JoinPath(CAROOT, ca.FileName),
               "-alias", Str(ca.UniqueName)>>)),
         LAMBDA r :
             IF r.err # ""
             THEN Res(FALSE, fatalCmdErr(r.err, <<"keytool", "-importcert">>, r.out), r.s)
             ELSE Res(TRUE, Nil, r.s))

\* a variant of UninstallJava without the "does not exist" case
UninstallJavaStrict(s, java) ==
    Bind(execKeytool(s, java, Command(java.keytoolPath,
             <<"-delete", "-alias", Str(ca.UniqueName), "-keystore", java.cacertsPath,
               "-storepass", storePass>>)),
         LAMBDA r :
             IF r.err # ""
             THEN Res(FALSE, fatalCmdErr(r.err, <<"keytool", "-delete">>, r.out), r.s)
             ELSE Res(TRUE, Nil, r.s))

\* UninstallJava
UninstallJava(s, java) ==
    Bind(execKeytool(s, java, Command(java.keytoolPath,
             <<"-delete", "-alias", Str(ca.UniqueName), "-keystore", java.cacertsPath,
               "-storepass", storePass>>)),
         LAMBDA r :
             IF Contains(r.out, <<"does not exist">>) THEN Res(FALSE, Nil, r.s)
             ELSE IF r.err # ""
             THEN Res(FALSE, fatalCmdErr(r.err, <<"keytool", "-delete">>, r.out), r.s)
             ELSE Res(TRUE, Nil, r.s))

\* Java.InstallCA: the keytool-missing warning of the install operation, or
\* InstallJava
JavaInstallCA(s, java) ==
    IF ~java.hasKeytool THEN Res(FALSE, WarningErr("error", ErrNoKeytool, "install"), s)
    ELSE InstallJava(s, java)

\* a variant of Java.UninstallCA that does not look for keytool first
JavaUninstallCAUnchecked(s, java) == UninstallJava(s, java)

\* Java.UninstallCA: the keytool-missing warning of the uninstall
\* operation, or UninstallJava
JavaUninstallCA(s, java) ==
    IF ~java.hasKeytool THEN Res(FALSE, WarningErr("error", ErrNoKeytool, "uninstall"), s)
    ELSE UninstallJava(s, java)

---------------------------------------------------------------------------
(* Platform backend, system CA-directory strategy: truststore_linux.go *)

\* InstallPlatform
InstallPlatform(s, plat) ==
    IF plat.SystemTrustCommand = <<>>
    THEN Res(FALSE, Nil,
             Log(Log(s, "Installing to the system store is not yet supported on this Linux"),
                 "You can also manually install the root certificate at "
                     \o JoinPath(CAROOT, rootName)))
    ELSE IF ReadFile(s.files, JoinPath(CAROOT, rootName)) = ""
    THEN Res(FALSE, PlainErr("failed to read root certificate"), s)
    ELSE Bind(CommandWithSudo(s, [Command("tee", <<systemTrustFilename(plat, ca)>>)
                                     EXCEPT !.stdin = ReadFile(s.files, JoinPath(CAROOT, rootName))]),
              LAMBDA t :
                  IF t.err # "" THEN Res(FALSE, fatalCmdErr(t.err, <<"tee">>, t.out), t.s)
                  ELSE Bind(CommandWithSudo(t.s, Command(Head(plat.SystemTrustCommand),
                                                         Tail(plat.SystemTrustCommand))),
                            LAMBDA c :
                                IF c.err # ""
                                THEN Res(FALSE, fatalCmdErr(c.err, plat.SystemTrustCommand, c.out), c.s)
                                ELSE Res(TRUE, Nil, c.s)))

\* a variant of UninstallPlatform that removes the files and leaves the
\* system bundle as it is
UninstallPlatformStale(s, plat) ==
    IF plat.SystemTrustCommand = <<>> THEN Res(FALSE, Nil, s)
    ELSE Bind(CommandWithSudo(s, Command("rm", <<"-f", systemTrustFilename(plat, ca)>>)),
              LAMBDA r : IF r.err # "" THEN Res(FALSE, fatalCmdErr(r.err, <<"rm">>, r.out), r.s)
                         ELSE Res(TRUE, Nil, r.s))

\* a variant of UninstallPlatform that knows the unique file name only
UninstallPlatformNoLegacy(s, plat) ==
    IF plat.SystemTrustCommand = <<>> THEN Res(FALSE, Nil, s)
    ELSE Bind(CommandWithSudo(s, Command("rm", <<"-f", systemTrustFilename(plat, ca)>>)),
      LAMBDA r :
        IF r.err # "" THEN Res(FALSE, fatalCmdErr(r.err, <<"rm">>, r.out), r.s)
        ELSE Bind(CommandWithSudo(r.s, Command(Head(plat.SystemTrustCommand),
                                               Tail(plat.SystemTrustCommand))),
              LAMBDA c :
                IF c.err # ""
                THEN Res(FALSE, fatalCmdErr(c.err, plat.SystemTrustCommand, c.out), c.s)
                ELSE Res(TRUE, Nil, c.s)))

\* UninstallPlatform
UninstallPlatform(s, plat) ==
    IF plat.SystemTrustCommand = <<>> THEN Res(FALSE, Nil, s)
    ELSE Bind(CommandWithSudo(s, Command("rm", <<"-f", systemTrustFilename(plat, ca)>>)),
      LAMBDA r :
        IF r.err # "" THEN Res(FALSE, fatalCmdErr(r.err, <<"rm">>, r.out), r.s)
        ELSE Bind(IF ReadFile(r.s.files, legacyFilename(plat)) # ""
                  THEN CommandWithSudo(r.s, Command("rm", <<"-f", legacyFilename(plat)>>))
                  ELSE Ran(r.s, <<>>, ""),
          LAMBDA l :
            IF l.err # ""
            THEN Res(FALSE, fatalCmdErr(l.err, <<"rm", "(legacy filename)">>, l.out), l.s)
            ELSE Bind(CommandWithSudo(l.s, Command(Head(plat.SystemTrustCommand),
                                                   Tail(plat.SystemTrustCommand))),
              LAMBDA c :
                IF c.err # ""
                THEN Res(FALSE, fatalCmdErr(c.err, plat.SystemTrustCommand, c.out), c.s)
                ELSE Res(TRUE, Nil, c.s))))

\* Platform.check: whether the platform is supported, and the
\* unsupported-distribution error when no anchor directory exists
check(plat) ==
    IF plat.SystemTrustCommand = <<>> THEN [ok |-> FALSE, err |-> ErrUnsupportedDistro]
    ELSE [ok |-> TRUE, err |-> ""]

\* platform.go Platform.Check: the check's error as a warning of OpCheck
PlatformCheck(s, plat) ==
    LET r == check(plat)
    IN Res(r.ok, IF r.err # "" THEN WarningErr("PlatformError", r.err, "check") ELSE Nil, s)

\* a variant of the deferred function that leaves an error of the
\* operation in place
deferredKeepsError(op, cerr, r) ==
    IF cerr # "" /\ r.err = Nil
    THEN Res(r.ok, WarningErr("PlatformError", cerr, op), r.s)
    ELSE r

\* the function Platform.InstallCA and Platform.UninstallCA defer when the
\* check reported the error cerr: it sets the named result err to the
\* warning of the operation, after the operation has returned r
deferred(op, cerr, r) ==
    IF cerr # ""
    THEN Res(r.ok, WarningErr("PlatformError", cerr, op), r.s)
    ELSE r

\* a variant of Platform.InstallCA without the deferred warning
InstallCAUnwrapped(s, plat) == InstallPlatform(s, plat)

\* platform.go Platform.InstallCA: the install's result, its error replaced
\* by the warning of OpInstall when the check reported an error
InstallCA(s, plat) == deferred("install", check(plat).err, InstallPlatform(s, plat))

\* platform.go Platform.UninstallCA: the uninstall's result, its error
\* replaced by the warning of OpUninstall when the check reported an error
UninstallCA(s, plat) == deferred("uninstall", check(plat).err, UninstallPlatform(s, plat))

---------------------------------------------------------------------------
(* Platform backend, keychain+plist strategy: truststore_darwin.go *)

\* trustSettingsData: trust for the TLS-server and the generic X.509 policy
trustSettings ==
    << [kSecTrustSettingsPolicy |-> "KoZIhvdjZAED",
        kSecTrustSettingsPolicyName |-> "sslServer",
        kSecTrustSettingsResult |-> 1],
       [kSecTrustSettingsPolicy |-> "KoZIhvdjZAEC",
        kSecTrustSettingsPolicyName |-> "basicX509",
        kSecTrustSettingsResult |-> 1] >>

\* the file ioutil.TempFile("", "trust-settings") creates
plistFile == "/tmp/trust-settings1"

\* os.Remove
osRemove(f, p) == [q \in (DOMAIN f) \ {p} |-> f[q]]

\* the result of the keychain+plist Install: as Res, and whether it
\* panicked, the trust settings it parsed from the export and the ones it
\* wrote for the import
DRes(ok, err, s, exported, edited) ==
    [ok |-> ok, err |-> err, s |-> s, panic |-> FALSE, exported |-> exported, edited |-> edited]

\* nothing parsed, nothing written
NoRoot == [trustVersion |-> 0, trustList |-> <<>>]

RECURSIVE editTrustList(_, _, _, _)
\* the loop over the trust list, in the order ord in which the map yields
\* its keys: the first entry that has an issuerName equal to subject gets
\* the trust settings, and the loop ends
editTrustList(trustList, ord, i, subject) ==
    IF i > Len(ord) THEN trustList
    ELSE IF ord[i] \notin DOMAIN trustList THEN editTrustList(trustList, ord, i + 1, subject)
    ELSE IF ~trustList[ord[i]].hasIssuer THEN editTrustList(trustList, ord, i + 1, subject)
    ELSE IF trustList[ord[i]].issuerName # subject
    THEN editTrustList(trustList, ord, i + 1, subject)
    ELSE [trustList EXCEPT ![ord[i]].hasTrust = TRUE, ![ord[i]].trustSettings = trustSettings]

\* a variant of the deferred os.Remove that does nothing after a failure
removeOnSuccess(r) ==
    IF r.ok THEN [r EXCEPT !.s.files = osRemove(@, plistFile)] ELSE r

\* defer os.Remove(plistFile.Name()): runs when InstallPlatform returns or
\* panics
deferRemove(r) == [r EXCEPT !.s.files = osRemove(@, plistFile)]

\* a variant of the edit that gives the trust settings to every entry that
\* has an issuerName
editEveryIssuer(plistRoot, ord) ==
    [plistRoot EXCEPT !.trustList =
        [k \in DOMAIN plistRoot.trustList |->
            IF plistRoot.trustList[k].hasIssuer
            THEN [plistRoot.trustList[k] EXCEPT !.hasTrust = TRUE,
                                                !.trustSettings = trustSettings]
            ELSE plistRoot.trustList[k]]]

\* InstallPlatform, lines 94-111: the trust list edited for the subject of
\* the CA
editRoot(plistRoot, ord) ==
    [plistRoot EXCEPT !.trustList = editTrustList(@, ord, 1, asn1Marshal(CASubject))]

\* InstallPlatform from the export on, the temp file being there
exportEditImport(s, ord) ==
    Bind(SudoExec(s, Command("security", <<"trust-settings-export", "-d", plistFile>>)),
      LAMBDA x :
        IF x.err # ""
        THEN DRes(FALSE, fatalCmdErr(x.err, <<"security", "trust-settings-export">>, x.out),
                  x.s, NoRoot, NoRoot)
        ELSE IF OsFails("read")
        THEN DRes(FALSE, PlainErr("failed to read trust settings"), x.s, NoRoot, NoRoot)
        ELSE IF x.s.files[plistFile].format # "plist"
        THEN DRes(FALSE, PlainErr("failed to parse trust settings"), x.s, NoRoot, NoRoot)
        ELSE IF x.s.files[plistFile].root.trustVersion = 0
        THEN [DRes(FALSE, Nil, x.s, NoRoot, NoRoot) EXCEPT !.panic = TRUE]
        ELSE IF x.s.files[plistFile].root.trustVersion # 1
        THEN DRes(FALSE, PlainErr("ERROR: unsupported trust settings version"),
                  x.s, NoRoot, NoRoot)
        ELSE Bind(editRoot(x.s.files[plistFile].root, ord),
          LAMBDA edited :
            IF OsFails("marshal")
            THEN DRes(FALSE, PlainErr("failed to serialize trust settings"), x.s,
                      x.s.files[plistFile].root, NoRoot)
            ELSE IF OsFails("write")
            THEN DRes(FALSE, PlainErr("failed to write trust settings"), x.s,
                      x.s.files[plistFile].root, NoRoot)
            ELSE Bind(SudoExec([x.s EXCEPT !.files = WriteFile(@, plistFile, PlistData(edited))],
                               Command("security", <<"trust-settings-import", "-d", plistFile>>)),
              LAMBDA m :
                IF m.err # ""
                THEN DRes(FALSE,
                          fatalCmdErr(m.err, <<"security", "trust-settings-import">>, m.out),
                          m.s, x.s.files[plistFile].root, edited)
                ELSE DRes(TRUE, Nil, m.s, x.s.files[plistFile].root, edited))))

\* truststore_darwin.go InstallPlatform; ord is the order in which the
\* trust-list map yields its keys
InstallPlatformDarwin(s, ord) ==
    Bind(SudoExec(s, Command("security",
             <<"add-trusted-cert", "-d", "-k", "/Library/Keychains/System.keychain",
               JoinPath(CAROOT, ca.FileName)>>)),
      LAMBDA a :
        IF a.err # ""
        THEN DRes(FALSE, fatalCmdErr(a.err, <<"security", "add-trusted-cert">>, a.out),
                  a.s, NoRoot, NoRoot)
        ELSE IF OsFails("temp")
        THEN DRes(FALSE, PlainErr("failed to create temp file"), a.s, NoRoot, NoRoot)
        ELSE deferRemove(exportEditImport(
                 [a.s EXCEPT !.files = WriteFile(@, plistFile, PlistData(NoRoot))], ord)))

\* truststore_darwin.go UninstallPlatform
UninstallPlatformDarwin(s) ==
    Bind(SudoExec(s, Command("security",
             <<"remove-trusted-cert", "-d", JoinPath(CAROOT, ca.FileName)>>)),
      LAMBDA r :
        IF r.err # ""
        THEN DRes(FALSE, fatalCmdErr(r.err, <<"security", "remove-trusted-cert">>, r.out),
                  r.s, NoRoot, NoRoot)
        ELSE DRes(TRUE, Nil, r.s, NoRoot, NoRoot))

---------------------------------------------------------------------------
(* The store facade: main.go *)

\* a variant of storeEnabled that enables every store
storeEnabledAll(name) == TRUE

\* storeEnabled: $TRUST_STORES is empty, or name is one of its
\* comma-separated entries
storeEnabled(name) ==
    \/ Str(stores) = ""
    \/ \E i \in DOMAIN Split(stores, ",") : Split(stores, ",")[i] = name

\* checkPlatform: the CA verifies against the system roots, or this process
\* has installed it
checkPlatform == ignoreCheckFailure \/ sysTrust

\* logWarning: the lines logged for a warning of an operation; an unhandled
\* warning panics
logWarning(w, op) ==
    LET Lines(l) == [panic |-> FALSE, lines |-> l]
        Panic == [panic |-> TRUE, lines |-> <<>>]
    IN CASE w.type = "NSSError" ->
              CASE w.err = ExitErr ->
                     IF op = "check"
                     THEN Lines(<<"Note: the local CA is not installed in the NSS trust store.">>)
                     ELSE Panic
                [] w.err = ErrNoCertutil ->
                     IF op = "install"
                     THEN Lines(<<"Warning: certutil is not available, so the CA can't be automatically installed",
                                  "Install certutil and re-run mkcert -install">>)
                     ELSE IF op = "uninstall"
                     THEN Lines(<<"Warning: certutil is not available, so the CA can't be automatically uninstalled",
                                  "You can install certutil and re-run mkcert -uninstall">>)
                     ELSE Panic
                [] w.err = ErrNoNSS ->
                     Lines(<<"Note: NSS support is not available on your platform.">>)
                [] w.err = ErrNoNSSDB ->
                     Lines(<<"ERROR: no NSS security databases found">>)
                [] OTHER -> Panic
         [] w.type = "PlatformError" ->
              IF w.err = ErrUnsupportedDistro
              THEN Lines(<<"Installing to the system store is not yet supported on this Linux",
                           "You can also manually install the root certificate at "
                               \o JoinPath(CAROOT, rootName)>>)
              ELSE Panic
         [] OTHER ->
              CASE w.err = ErrNoKeytool ->
                     IF op = "install"
                     THEN Lines(<<"Warning: keytool is not available, so the CA can't be automatically installed">>)
                     ELSE IF op = "uninstall"
                     THEN Lines(<<"", "Warning: keytool is not available, so the CA can't be automatically uninstalled", "">>)
                     ELSE Panic
                [] w.err = ErrNoSudo ->
                     Lines(<<"Warning: sudo is not available, and mkcert is not running as root.">>)
                [] OTHER -> Panic

\* logErr: logs the warning of err, if any; a fatal cause ends the process
\* (log.Fatalf); otherwise v is returned
logErr(v, err) ==
    Bind(IF err.Warning # NoWarning THEN logWarning(err.Warning, err.Op)
         ELSE [panic |-> FALSE, lines |-> <<>>],
         LAMBDA w :
             IF w.panic THEN [v |-> v, exit |-> "panic", lines |-> <<"panic: unhandled warning">>]
             ELSE IF err.Fatal.set
             THEN [v |-> v, exit |-> "fatal",
                   lines |-> w.lines \o <<"ERROR: " \o Str(err.Fatal.cmd) \o ": "
                                          \o err.Fatal.cause \o Str(err.Fatal.out)>>]
             ELSE [v |-> v, exit |-> "", lines |-> w.lines])

\* ignoreErr: the value, whatever the error
ignoreErr(v, err) == v

\* a logErr that had nothing to log
Quiet(v) == [v |-> v, exit |-> "", lines |-> <<>>]

\* the trust stores and CA files, for comparing before and after
Stores(s) == <<s.files, s.sysTrust, s.nssdb, s.keystore>>

\* the note of one backend operation: its result and the commands it ran
Op(backend, op, s0, r) ==
    [backend |-> backend, op |-> op, ok |-> r.ok, err |-> r.err,
     from |-> Len(s0.cmds) + 1, to |-> Len(r.s.cmds),
     changed |-> Stores(r.s) # Stores(s0)]

\* the order in which a mode visits the backends, and what follows the last
Order(m) == IF m = "uninstall" THEN <<"nss", "java", "sys">> ELSE <<"sys", "nss", "java">>

\* a variant of After that ends the trust step after any backend
AfterNone(m, b) == "end"

After(m, b) ==
    LET o == Order(m)
        i == CHOOSE k \in 1..3 : o[k] = b
    IN IF i < 3 THEN o[i + 1] ELSE "end"

\* the invocation moves on from position pc: state s is written back, the
\* operations are noted, and the process goes to next or ends as exit
Move(s, newOps, lines, ex, next) ==
    /\ files' = s.files
    /\ sysTrust' = s.sysTrust
    /\ nssdb' = s.nssdb
    /\ keystore' = s.keystore
    /\ faultLeft' = s.faultLeft
    /\ sudoWarned' = s.sudoWarned
    /\ cmds' = s.cmds
    /\ out' = s.out \o lines
    /\ ops' = ops \o newOps
    /\ IF ex # "" THEN pc' = "idle" /\ exit' = ex /\ exitAt' = pc
       ELSE IF next = "end" THEN pc' = "idle" /\ exit' = "ok" /\ exitAt' = pc
       ELSE pc' = next /\ UNCHANGED <<exit, exitAt>>

\* what a backend's history becomes after the operations of one step
Note(b, newOps, ex) ==
    hist' = [hist EXCEPT ![b] = @ \o
                [i \in 1..Len(newOps) |->
                    IF faultKind.name # "" THEN "faulty"
                    ELSE IF newOps[i].op = "check"
                    THEN (IF newOps[i].ok THEN "found" ELSE "notfound")
                    ELSE IF newOps[i].ok THEN newOps[i].op
                    ELSE "failed"]]

---------------------------------------------------------------------------
(* Run, step by step *)

NoFault == [name |-> "", op |-> "", out |-> <<>>]

\* a process starts: main() has parsed the flags and the environment
StartRun(m, ts, names, fk, n) ==
    /\ pc = "idle"
    /\ runs' = runs + 1
    /\ pc' = "mkdir"
    /\ mode' = m
    /\ stores' = ts
    /\ args' = names
    /\ input' = names
    /\ faultKind' = fk
    /\ faultLeft' = IF fk = NoFault THEN 0 ELSE n
    /\ warning' = FALSE
    /\ ignoreCheckFailure' = FALSE
    /\ sudoWarned' = FALSE
    /\ cmds' = <<>>
    /\ out' = <<>>
    /\ ops' = <<>>
    /\ exit' = ""
    /\ exitAt' = ""
    /\ issued' = <<>>
    /\ UNCHANGED <<env, once, gor, linux, files, sysTrust, nssdb, keystore, hist>>

\* a variant of MkdirAll whose failure goes unnoticed
MkdirAllUnchecked(e) == TRUE

\* os.MkdirAll(CAROOT, 0755) has succeeded: the root directory is there or
\* could be created
MkdirAll(e) == e.carootOK

\* Run: os.MkdirAll(CAROOT), fatal when it fails
Mkdir ==
    /\ pc = "mkdir"
    /\ IF MkdirAll(env)
       THEN Move(Cur, <<>>, <<>>, "", "loadCA")
       ELSE Move(Cur, <<>>, <<"ERROR: failed to create the CAROOT: mkdir">>, "fatal", "")
    /\ UNCHANGED <<env, once, gor, linux, mode, stores, args, input, warning, ignoreCheckFailure,
                   faultKind, issued, hist, runs>>

\* pathExists: there is a file at the path
pathExists(f, p) == ReadFile(f, p) # ""

\* the content of a file of zero bytes, and a content that is no PEM
ZeroBytes == "<zero bytes>"
NotPEM == "<not PEM>"

\* a variant of pemType that takes any content but a key for a certificate
pemTypeLax(content) == IF content = "KEY" THEN "PRIVATE KEY" ELSE "CERTIFICATE"

\* pem.Decode: the type of the PEM block a content starts with, "" when the
\* content has no PEM block
pemType(content) ==
    CASE content = "CERT" -> "CERTIFICATE"
      [] content = "KEY" -> "PRIVATE KEY"
      [] OTHER -> ""

ErrCertContent == "failed to read the CA certificate: unexpected content"
ErrKeyContent == "failed to read the CA key: unexpected content"
ErrKeyMissing == "can't create new certificates because the CA key (rootCA-key.pem) is missing"

\* newCA: a new key and certificate, written to the root directory
newCA(s) ==
    Log([s EXCEPT !.files = WriteFile(WriteFile(@, caKeyPath, "KEY"), caCertPath, "CERT")],
        "Created a new local CA")

\* a variant of loadCA that takes a bad key file for a missing one
loadCAKeyless(s) ==
    Bind(IF pathExists(s.files, caCertPath) THEN s ELSE newCA(s),
         LAMBDA n :
             IF pemType(ReadFile(n.files, caCertPath)) # "CERTIFICATE"
             THEN [s |-> n, err |-> ErrCertContent]
             ELSE IF pemType(ReadFile(n.files, caKeyPath)) # "PRIVATE KEY"
             THEN [s |-> n, err |-> ErrKeyMissing]
             ELSE [s |-> n, err |-> ""])

\* loadCA: a new CA when there is no certificate file; then the certificate,
\* which must be a PEM certificate; then the key, which must be there and
\* must be a PEM private key
loadCA(s) ==
    Bind(IF pathExists(s.files, caCertPath) THEN s ELSE newCA(s),
         LAMBDA n :
             IF pemType(ReadFile(n.files, caCertPath)) # "CERTIFICATE"
             THEN [s |-> n, err |-> ErrCertContent]
             ELSE IF ~pathExists(n.files, caKeyPath)
             THEN [s |-> n, err |-> ErrKeyMissing]
             ELSE IF pemType(ReadFile(n.files, caKeyPath)) # "PRIVATE KEY"
             THEN [s |-> n, err |-> ErrKeyContent]
             ELSE [s |-> n, err |-> ""])

\* Run: loadCA, fatal when it fails, then the dispatch on the mode
LoadCA ==
    /\ pc = "loadCA"
    /\ \E r \in {loadCA(Cur)} :
           IF r.err # ""
           THEN Move(r.s, <<>>, <<"ERROR: " \o r.err>>, "fatal", "")
           ELSE Move(r.s, <<>>, <<>>, "", Head(Order(mode)))
    /\ UNCHANGED <<env, once, gor, linux, mode, stores, args, input, warning, ignoreCheckFailure,
                   faultKind, issued, hist, runs>>

\* a variant of AfterTrust in which Run returns after the trust step
AfterTrustReturn(next) == next

\* what follows the trust step of install mode and of generate mode: Run
\* returns when no name is asked for, else goes on to the names
AfterTrust(next) ==
    IF next # "end" THEN next
    ELSE IF mode = "install" /\ args = <<>> THEN "end"
    ELSE "names"

\* install(), system store
installSystem ==
    /\ pc = "sys" /\ mode = "install"
    /\ IF ~storeEnabled("system")
       THEN /\ Move(Cur, <<>>, <<>>, "", AfterTrust(After(mode, "sys")))
            /\ UNCHANGED <<ignoreCheckFailure, hist>>
       ELSE IF checkPlatform
       THEN /\ Move(Cur, <<Op("sys", "check", Cur, Res(TRUE, Nil, Cur))>>,
                    <<"The local CA is already installed in the system trust store!">>,
                    "", AfterTrust(After(mode, "sys")))
            /\ Note("sys", <<Op("sys", "check", Cur, Res(TRUE, Nil, Cur))>>, "")
            /\ UNCHANGED ignoreCheckFailure
       ELSE \E r \in {InstallCA(Cur, InitPlatform(env))} :
            \E l \in {logErr(r.ok, r.err)} :
            \E o \in {<<Op("sys", "check", Cur, Res(FALSE, Nil, Cur)),
                        Op("sys", "install", Cur, r)>>} :
                /\ Move(r.s, o,
                        l.lines \o (IF l.exit = "" /\ l.v
                                    THEN <<"The local CA is now installed in the system trust store!">>
                                    ELSE <<>>),
                        l.exit, AfterTrust(After(mode, "sys")))
                /\ Note("sys", o, l.exit)
                /\ ignoreCheckFailure' = (l.exit = "")
    /\ UNCHANGED <<env, once, gor, linux, mode, stores, args, input, warning, faultKind, issued, runs>>

\* install(), NSS
installNSS ==
    /\ pc = "nss" /\ mode = "install"
    /\ IF ~(storeEnabled("nss") /\ ignoreErr(HasNSS(env), Nil))
       THEN Move(Cur, <<>>, <<>>, "", AfterTrust(After(mode, "nss"))) /\ UNCHANGED hist
       ELSE \E c \in {CheckNSS(Cur, InitNSS(env))} :
            \E lc \in {logErr(c.ok, c.err)} :
                IF lc.exit # "" \/ lc.v
                THEN /\ Move(c.s, <<Op("nss", "check", Cur, c)>>,
                             lc.lines \o (IF lc.exit = ""
                                          THEN <<"The local CA is already installed in the NSS trust store!">>
                                          ELSE <<>>),
                             lc.exit, AfterTrust(After(mode, "nss")))
                     /\ Note("nss", <<Op("nss", "check", Cur, c)>>, lc.exit)
                ELSE \E r \in {InstallNSS(c.s, InitNSS(env))} :
                     \E l \in {logErr(r.ok, r.err)} :
                     \E o \in {<<Op("nss", "check", Cur, c), Op("nss", "install", c.s, r)>>} :
                         /\ Move(r.s, o,
                                 lc.lines \o l.lines
                                     \o (IF l.exit = "" /\ l.v
                                         THEN <<"The local CA is now installed in the NSS trust store (requires browser restart)!">>
                                         ELSE <<>>),
                                 l.exit, AfterTrust(After(mode, "nss")))
                         /\ Note("nss", o, l.exit)
    /\ UNCHANGED <<env, once, gor, linux, mode, stores, args, input, warning, ignoreCheckFailure,
                   faultKind, issued, runs>>

\* install(), Java, and the closing empty line
installJava ==
    /\ pc = "java" /\ mode = "install"
    /\ IF ~(storeEnabled("java") /\ env.javaHome)
       THEN Move(Cur, <<>>, <<"">>, "", AfterTrust(After(mode, "java"))) /\ UNCHANGED hist
       ELSE \E c \in {CheckJava(Cur, InitJava(env))} :
                IF ignoreErr(c.ok, c.err)
                THEN /\ Move(c.s, <<Op("java", "check", Cur, c)>>,
                             <<"The local CA is already installed in Java's trust store!", "">>,
                             "", AfterTrust(After(mode, "java")))
                     /\ Note("java", <<Op("java", "check", Cur, c)>>, "")
                ELSE \E r \in {JavaInstallCA(c.s, InitJava(env))} :
                     \E l \in {logErr(r.ok, r.err)} :
                     \E o \in {<<Op("java", "check", Cur, c), Op("java", "install", c.s, r)>>} :
                         /\ Move(r.s, o,
                                 l.lines \o (IF l.exit = "" /\ l.v
                                             THEN <<"The local CA is now installed in Java's trust store!", "">>
                                             ELSE IF l.exit = "" THEN <<"">> ELSE <<>>),
                                 l.exit, AfterTrust(After(mode, "java")))
                         /\ Note("java", o, l.exit)
    /\ UNCHANGED <<env, once, gor, linux, mode, stores, args, input, warning, ignoreCheckFailure,
                   faultKind, issued, runs>>


\* uninstall(), NSS
uninstallNSS ==
    /\ pc = "nss" /\ mode = "uninstall"
    /\ IF ~(storeEnabled("nss") /\ ignoreErr(HasNSS(env), Nil))
       THEN Move(Cur, <<>>, <<>>, "", After(mode, "nss")) /\ UNCHANGED hist
       ELSE \E r \in {UninstallNSS(Cur, InitNSS(env))} :
            \E l \in {logErr(r.ok, r.err)} :
                /\ Move(r.s, <<Op("nss", "uninstall", Cur, r)>>, l.lines, l.exit,
                        After(mode, "nss"))
                /\ Note("nss", <<Op("nss", "uninstall", Cur, r)>>, l.exit)
    /\ UNCHANGED <<env, once, gor, linux, mode, stores, args, input, warning, ignoreCheckFailure,
                   faultKind, issued, runs>>

\* uninstall(), Java
uninstallJava ==
    /\ pc = "java" /\ mode = "uninstall"
    /\ IF ~(storeEnabled("java") /\ env.javaHome)
       THEN Move(Cur, <<>>, <<>>, "", After(mode, "java")) /\ UNCHANGED hist
       ELSE \E r \in {JavaUninstallCA(Cur, InitJava(env))} :
            \E l \in {logErr(r.ok, r.err)} :
                /\ Move(r.s, <<Op("java", "uninstall", Cur, r)>>, l.lines, l.exit,
                        After(mode, "java"))
                /\ Note("java", <<Op("java", "uninstall", Cur, r)>>, l.exit)
    /\ UNCHANGED <<env, once, gor, linux, mode, stores, args, input, warning, ignoreCheckFailure,
                   faultKind, issued, runs>>

\* the closing line of uninstall() when the system store reported nothing
\* uninstalled
nssUninstalled ==
    IF storeEnabled("nss") /\ ignoreErr(HasNSS(env), Nil)
    THEN <<"The local CA is now uninstalled from the NSS trust store(s)!", "">>
    ELSE <<>>

\* uninstall(), system store, and the closing message
uninstallSystem ==
    /\ pc = "sys" /\ mode = "uninstall"
    /\ IF ~storeEnabled("system")
       THEN Move(Cur, <<>>, nssUninstalled, "", After(mode, "sys")) /\ UNCHANGED hist
       ELSE \E r \in {UninstallCA(Cur, InitPlatform(env))} :
            \E l \in {logErr(r.ok, r.err)} :
                /\ Move(r.s, <<Op("sys", "uninstall", Cur, r)>>,
                        l.lines \o (IF l.exit # "" THEN <<>>
                                    ELSE IF l.v
                                    THEN <<"The local CA is now uninstalled from the system trust store(s)!", "">>
                                    ELSE nssUninstalled),
                        l.exit, After(mode, "sys"))
                /\ Note("sys", <<Op("sys", "uninstall", Cur, r)>>, l.exit)
    /\ UNCHANGED <<env, once, gor, linux, mode, stores, args, input, warning, ignoreCheckFailure,
                   faultKind, issued, runs>>

\* Run without -install and -uninstall, system store
checkSystem ==
    /\ pc = "sys" /\ mode = "generate"
    /\ IF ~storeEnabled("system")
       THEN Move(Cur, <<>>, <<>>, "", "nss") /\ UNCHANGED <<warning, hist>>
       ELSE \E p \in {PlatformCheck(Cur, InitPlatform(env))} :
            \E l \in {logErr(p.ok, p.err)} :
            \E miss \in {l.exit = "" /\ l.v /\ ~checkPlatform} :
                /\ Move(Cur, <<Op("sys", "check", Cur, Res(checkPlatform, p.err, Cur))>>,
                        l.lines \o (IF miss
                                    THEN <<"Note: the local CA is not installed in the system trust store.">>
                                    ELSE <<>>),
                        l.exit, "nss")
                /\ warning' = (warning \/ miss)
                /\ Note("sys", <<Op("sys", "check", Cur, Res(checkPlatform, p.err, Cur))>>, l.exit)
    /\ UNCHANGED <<env, once, gor, linux, mode, stores, args, input, ignoreCheckFailure,
                   faultKind, issued, runs>>

\* Run without -install and -uninstall, NSS
checkNSS ==
    /\ pc = "nss" /\ mode = "generate"
    /\ IF ~(storeEnabled("nss") /\ ignoreErr(HasNSS(env), Nil))
       THEN Move(Cur, <<>>, <<>>, "", "java") /\ UNCHANGED <<warning, hist>>
       ELSE \E c \in {CheckNSS(Cur, InitNSS(env))} :
            \E l \in {logErr(c.ok, c.err)} :
                /\ Move(c.s, <<Op("nss", "check", Cur, c)>>, l.lines, l.exit, "java")
                /\ warning' = (warning \/ (l.exit = "" /\ ~l.v))
                /\ Note("nss", <<Op("nss", "check", Cur, c)>>, l.exit)
    /\ UNCHANGED <<env, once, gor, linux, mode, stores, args, input, ignoreCheckFailure,
                   faultKind, issued, runs>>

\* the closing advice of the checks
advice(w) ==
    IF w THEN <<"Run mkcert -install for certificates to be trusted automatically">>
    ELSE <<>>

\* Run without -install and -uninstall, Java, and the closing advice
checkJava ==
    /\ pc = "java" /\ mode = "generate"
    /\ IF ~(storeEnabled("java") /\ env.javaHome)
       THEN /\ Move(Cur, <<>>, advice(warning), "", AfterTrust("end"))
            /\ UNCHANGED <<warning, hist>>
       ELSE \E c \in {CheckJava(Cur, InitJava(env))} :
            \E l \in {logErr(c.ok, c.err)} :
            \E miss \in {l.exit = "" /\ ~l.v} :
                /\ Move(c.s, <<Op("java", "check", Cur, c)>>,
                        l.lines
                            \o (IF miss
                                THEN <<"Note: the local CA is not installed in the Java trust store.">>
                                ELSE <<>>)
                            \o (IF l.exit = "" THEN advice(warning \/ miss) ELSE <<>>),
                        l.exit, AfterTrust("end"))
                /\ warning' = (warning \/ miss)
                /\ Note("java", <<Op("java", "check", Cur, c)>>, l.exit)
    /\ UNCHANGED <<env, once, gor, linux, mode, stores, args, input, ignoreCheckFailure,
                   faultKind, issued, runs>>


---------------------------------------------------------------------------
(* Names: a name is a sequence of characters, each a one-character string *)

Digits == {"0", "1", "2", "3", "4", "5", "6", "7", "8", "9"}

Letters ==
    {"a", "b", "c", "d", "e", "f", "g", "h", "i", "j", "k", "l", "m", "n", "o",
     "p", "q", "r", "s", "t", "u", "v", "w", "x", "y", "z",
     "A", "B", "C", "D", "E", "F", "G", "H", "I", "J", "K", "L", "M", "N", "O",
     "P", "Q", "R", "S", "T", "U", "V", "W", "X", "Y", "Z"}

HexDigits == Digits \cup {"a", "b", "c", "d", "e", "f", "A", "B", "C", "D", "E", "F"}

\* the characters outside ASCII that the names of this model use
NonASCII == {"ü"}

\* the value of a sequence of decimal digits
RECURSIVE Atoi(_)
Atoi(ds) ==
    IF ds = <<>> THEN 0
    ELSE 10 * Atoi(SubSeq(ds, 1, Len(ds) - 1))
         + (CHOOSE v \in 0..9 :
               ds[Len(ds)] = <<"0", "1", "2", "3", "4", "5", "6", "7", "8", "9">>[v + 1])

\* the fields of a name between occurrences of the character sep
RECURSIVE Fields(_, _)
Fields(n, sep) ==
    IF \A i \in DOMAIN n : n[i] # sep THEN <<n>>
    ELSE LET i == CHOOSE k \in DOMAIN n : n[k] = sep /\ \A j \in 1..(k - 1) : n[j] # sep
         IN <<SubSeq(n, 1, i - 1)>> \o Fields(SubSeq(n, i + 1, Len(n)), sep)

\* net.ParseIP: a dotted-decimal IPv4 address of four fields up to 255, or
\* an IPv6 address of hexadecimal groups with at most one "::"
ParseIP(n) ==
    LET v4 == Fields(n, ".")
        v6 == Fields(n, ":")
        empties == {i \in 2..(Len(v6) - 1) : v6[i] = <<>>}
        isV4 == /\ Len(v4) = 4
                /\ \A i \in 1..4 : /\ v4[i] # <<>>
                                   /\ Len(v4[i]) <= 3
                                   /\ Range(v4[i]) \subseteq Digits
                                   /\ Atoi(v4[i]) <= 255
        isV6 == /\ Len(v6) >= 3
                /\ Len(v6) <= 8
                /\ \A i \in DOMAIN v6 : Range(v6[i]) \subseteq HexDigits /\ Len(v6[i]) <= 4
                /\ Cardinality(empties) <= 1
                /\ (v6[1] = <<>> => v6[2] = <<>>)
                /\ (v6[Len(v6)] = <<>> => v6[Len(v6) - 1] = <<>>)
                /\ (Len(v6) < 8 => \E i \in DOMAIN v6 : v6[i] = <<>>)
    IN isV4 \/ isV6

\* mail.ParseAddress(name) succeeding with Address == name: a bare
\* addr-spec, dot-atom local part "@" dot-atom domain
AtomChars == Digits \cup Letters \cup {"-", "_", "!", "+"}

DotAtom(n) ==
    LET f == Fields(n, ".")
    IN \A i \in DOMAIN f : f[i] # <<>> /\ Range(f[i]) \subseteq AtomChars

IsEmail(n) ==
    LET f == Fields(n, "@")
    IN Len(f) = 2 /\ DotAtom(f[1]) /\ DotAtom(f[2])

\* url.Parse(name) succeeding with a scheme and a host: scheme "://" host
\* and an optional path
IsURI(n) ==
    \E i \in DOMAIN n :
        /\ i > 1
        /\ i + 3 <= Len(n)
        /\ SubSeq(n, i, i + 2) = <<":", "/", "/">>
        /\ n[1] \in Letters
        /\ Range(SubSeq(n, 1, i - 1)) \subseteq Letters \cup Digits \cup {"+", "-", "."}
        /\ n[i + 3] \in Letters \cup Digits
        /\ Range(SubSeq(n, i + 3, Len(n)))
               \subseteq Letters \cup Digits \cup {"-", ".", "_", "/"}

ACEPrefix == <<"x", "n", "-", "-">>

HasACEPrefix(l) == Len(l) >= 4 /\ SubSeq(l, 1, 4) = ACEPrefix

\* punycode of the labels outside ASCII that the names of this model use
Punycode(l) == IF l = <<"ü">> THEN <<"t", "d", "a">> ELSE <<"?">>

\* idna.ToASCII of one label: a label outside ASCII is encoded and
\* prefixed; a label with the prefix must decode, which needs base-36 digits
LabelToASCII(l) ==
    IF Range(l) \cap NonASCII # {} THEN [label |-> ACEPrefix \o Punycode(l), err |-> ""]
    ELSE IF HasACEPrefix(l)
            /\ ~(Range(SubSeq(l, 5, Len(l))) \subseteq Letters \cup Digits \cup {"-"})
    THEN [label |-> l, err |-> "idna: invalid label"]
    ELSE [label |-> l, err |-> ""]

RECURSIVE JoinLabels(_)
JoinLabels(ls) ==
    IF Len(ls) = 1 THEN ls[1] ELSE ls[1] \o <<".">> \o JoinLabels(Tail(ls))

\* idna.ToASCII: label by label
ToASCII(n) ==
    LET ls == Fields(n, ".")
        rs == [i \in DOMAIN ls |-> LabelToASCII(ls[i])]
    IN [name |-> JoinLabels([i \in DOMAIN rs |-> rs[i].label]),
        err |-> IF \E i \in DOMAIN rs : rs[i].err # "" THEN "idna: invalid label" ELSE ""]

\* hostnameRegexp: (?i)^(\*\.)?[0-9a-z_-]([0-9a-z._-]*[0-9a-z_-])?$
HostChars == Digits \cup Letters \cup {"_", "-"}

hostnameRegexp(n) ==
    LET rest == IF Len(n) >= 2 /\ SubSeq(n, 1, 2) = <<"*", ".">>
                THEN SubSeq(n, 3, Len(n)) ELSE n
    IN /\ rest # <<>>
       /\ rest[1] \in HostChars
       /\ rest[Len(rest)] \in HostChars
       /\ Range(rest) \subseteq HostChars \cup {"."}

\* the verb %q: the name as a quoted Go string literal, the quote and the
\* backslash escaped
RECURSIVE Escape(_)
Escape(n) ==
    IF n = <<>> THEN <<>>
    ELSE (IF Head(n) = "\"" THEN <<"\\", "\"">>
          ELSE IF Head(n) = "\\" THEN <<"\\", "\\">>
          ELSE <<Head(n)>>) \o Escape(Tail(n))

Quote(n) == <<"\"">> \o Escape(n) \o <<"\"">>


\* Run, the loop over the names: the first name that is no IP, no email
\* address, no URI and no hostname ends the process; a hostname is replaced
\* by its ASCII form
RECURSIVE checkNames(_, _)
checkNames(names, i) ==
    IF i > Len(names) THEN [args |-> names, bad |-> 0, err |-> ""]
    ELSE LET name == names[i]
             p == ToASCII(name)
         IN IF ParseIP(name) \/ IsEmail(name) \/ IsURI(name) THEN checkNames(names, i + 1)
            ELSE IF p.err # "" THEN [args |-> names, bad |-> i, err |-> p.err]
            ELSE IF ~hostnameRegexp(p.name)
            THEN [args |-> [names EXCEPT ![i] = p.name], bad |-> i, err |-> ""]
            ELSE checkNames([names EXCEPT ![i] = p.name], i + 1)

\* a variant of invalidName that has the name as it was typed
invalidNameTyped(name, err) ==
    "ERROR: \"" \o Str(name) \o "\" is not a valid hostname, IP, URL or email"
        \o (IF err # "" THEN ": " \o err ELSE "")

\* the line of log.Fatalf for the rejected name
invalidName(name, err) ==
    "ERROR: " \o Str(Quote(name)) \o " is not a valid hostname, IP, URL or email"
        \o (IF err # "" THEN ": " \o err ELSE "")

\* strconv.Itoa for the counts that occur
Itoa(n) ==
    LET d == <<"0", "1", "2", "3", "4", "5", "6", "7", "8", "9">>
    IN IF n < 10 THEN <<d[n + 1]>> ELSE <<d[(n \div 10) + 1], d[(n % 10) + 1]>>

\* a variant of defaultName that is the first name as it is
firstName(hosts) == hosts[1]

\* the base name of the output files: the first name, a leading "*."
\* written "_wildcard.", then "+" and the count of the other names
defaultName(hosts) ==
    LET first == hosts[1]
        base == IF Len(first) >= 2 /\ SubSeq(first, 1, 2) = <<"*", ".">>
                THEN <<"_", "w", "i", "l", "d", "c", "a", "r", "d", ".">>
                         \o SubSeq(first, 3, Len(first))
                ELSE first
    IN IF Len(hosts) > 1 THEN base \o <<"+">> \o Itoa(Len(hosts) - 1) ELSE base

\* fileNames: the certificate file and the key file in the working directory
fileNames(hosts) ==
    [certFile |-> "./" \o Str(defaultName(hosts)) \o ".pem",
     keyFile |-> "./" \o Str(defaultName(hosts)) \o "-key.pem"]

\* Run: usage when no name is asked for, else the validation of the names
validateNames ==
    /\ pc = "names"
    /\ LET v == checkNames(args, 1)
       IN /\ IF args = <<>> THEN Move(Cur, <<>>, <<"Usage of mkcert:">>, "", "end")
             ELSE IF v.bad # 0
             THEN Move(Cur, <<>>, <<invalidName(args[v.bad], v.err)>>, "fatal", "")
             ELSE Move(Cur, <<>>, <<>>, "", "cert")
          /\ args' = v.args
    /\ UNCHANGED <<env, once, gor, linux, mode, stores, input, warning, ignoreCheckFailure,
                   faultKind, issued, hist, runs>>

\* makeCert: the leaf certificate for the names, written with its key
makeCert ==
    /\ pc = "cert"
    /\ LET f == fileNames(args)
       IN /\ Move([Cur EXCEPT !.files = WriteFile(WriteFile(@, f.certFile, "LEAF"),
                                                  f.keyFile, "LEAFKEY")],
                  <<>>,
                  <<"Created a new certificate valid for the following names",
                    "The certificate is at " \o f.certFile \o " and the key at " \o f.keyFile>>,
                  "", "end")
          /\ issued' = <<[names |-> args, certFile |-> f.certFile, keyFile |-> f.keyFile]>>
    /\ UNCHANGED <<env, once, gor, linux, mode, stores, args, input, warning, ignoreCheckFailure,
                   faultKind, hist, runs>>


---------------------------------------------------------------------------
(* The discoveries under sync.Once: InitJava, InitNSS and their callers *)

Goroutines == 1..MaxGo

\* the package variables of a backend before its discovery has run
ZeroVars(b) ==
    IF b = "java"
    THEN [hasJava |-> FALSE, hasKeytool |-> FALSE, javaHome |-> "",
          cacertsPath |-> "", keytoolPath |-> ""]
    ELSE [hasNSS |-> FALSE, hasCertutil |-> FALSE, certutilPath |-> ""]

\* initJavaOnce, initNSSOnce: done, the goroutine that holds the mutex,
\* the runs of the function so far, how far the running one has come; with
\* it the package variables the function sets
NewOnce(b) == [done |-> FALSE, m |-> 0, runs |-> 0, at |-> 0, pkg |-> ZeroVars(b)]

\* a goroutine outside the discoveries
Idle == [pc |-> "idle", fn |-> "", calls |-> 0, ret |-> <<>>, path |-> ""]

\* the callers and the backend whose discovery each of them asks
Callers == {"HasJava", "HasKeytool", "HasNSS", "HasCertutil"}
BackendOf(fn) == IF fn \in {"HasJava", "HasKeytool"} THEN "java" ELSE "nss"

\* the package variable a caller returns
Returns(fn) ==
    CASE fn = "HasJava" -> "hasJava"
      [] fn = "HasKeytool" -> "hasKeytool"
      [] fn = "HasNSS" -> "hasNSS"
      [] fn = "HasCertutil" -> "hasCertutil"

\* the function InitJava hands to Do, as the assignments it makes in order
JavaBody(e) ==
    <<Set("keytoolPath", IF e.goos = "windows" THEN "bin/keytool.exe" ELSE "bin/keytool")>>
    \o (IF ~e.javaHome THEN <<>>
        ELSE <<Set("hasJava", TRUE), Set("javaHome", JAVA_HOME)>>
             \o (IF e.keytool
                 THEN <<Set("hasKeytool", TRUE),
                        Set("keytoolPath",
                            JoinPath(JAVA_HOME, IF e.goos = "windows" THEN "bin/keytool.exe"
                                                ELSE "bin/keytool"))>>
                 ELSE <<>>)
             \o (IF "lib" \in e.cacerts
                 THEN <<Set("cacertsPath", JAVA_HOME \o "/lib/security/cacerts")>> ELSE <<>>)
             \o (IF "jre" \in e.cacerts
                 THEN <<Set("cacertsPath", JAVA_HOME \o "/jre/lib/security/cacerts")>> ELSE <<>>))

\* the function InitNSS hands to Do, as the assignments it makes in order
NSSBody(e) ==
    (IF e.firefox \/ \E i \in 1..3 : e.profiles[i] # "missing"
     THEN <<Set("hasNSS", TRUE)>> ELSE <<>>)
    \o (IF e.goos = "darwin" THEN DarwinCertutil(e)
        ELSE IF e.goos # "linux" THEN <<>>
        ELSE <<Set("hasCertutil", "certutil" \in e.bins)>>
             \o (IF "certutil" \in e.bins
                 THEN <<Set("certutilPath", "/usr/bin/certutil")>> ELSE <<>>))

Body(b) == IF b = "java" THEN JavaBody(env) ELSE NSSBody(env)

\* a step of goroutine g at position p
Stepped(o, p, can) == [o |-> o, pc |-> p, can |-> can]

\* a variant of Do that is a plain flag: looked at, then the function, then
\* set, with no mutex
DoPlainFlag(o, g, p, f) ==
    CASE p = "Do" -> Stepped(o, IF o.done THEN "return" ELSE "Lock", TRUE)
      [] p = "Lock" -> Stepped([o EXCEPT !.runs = @ + 1, !.at = 0], "f", TRUE)
      [] p = "f" -> IF o.at < Len(f)
                    THEN Stepped([o EXCEPT !.at = @ + 1,
                                           !.pkg[f[o.at + 1].var] = f[o.at + 1].val], "f", TRUE)
                    ELSE Stepped(o, "Store", TRUE)
      [] p = "Store" -> Stepped([o EXCEPT !.done = TRUE], "Unlock", TRUE)
      [] p = "Unlock" -> Stepped(o, "return", TRUE)

\* sync.Once.Do(f), one step of goroutine g at a time: done is loaded and
\* a set one returns; otherwise the mutex is taken when it is free, and
\* under it done is loaded again, the function runs when it is still unset,
\* done is stored, and the mutex is given back
Do(o, g, p, f) ==
    CASE p = "Do" -> Stepped(o, IF o.done THEN "return" ELSE "Lock", TRUE)
      [] p = "Lock" -> IF o.done THEN Stepped([o EXCEPT !.m = g], "Unlock", o.m = 0)
                       ELSE Stepped([o EXCEPT !.m = g, !.runs = @ + 1, !.at = 0], "f", o.m = 0)
      [] p = "f" -> IF o.at < Len(f)
                    THEN Stepped([o EXCEPT !.at = @ + 1,
                                           !.pkg[f[o.at + 1].var] = f[o.at + 1].val], "f", TRUE)
                    ELSE Stepped(o, "Store", TRUE)
      [] p = "Store" -> Stepped([o EXCEPT !.done = TRUE], "Unlock", TRUE)
      [] p = "Unlock" -> Stepped([o EXCEPT !.m = 0], "return", TRUE)

---------------------------------------------------------------------------
(* The machines, the inputs and the specifications *)

\* a workstation: Debian family, Chromium and Firefox databases, a JDK
\* whose keystore only the superuser writes, sudo
Workstation ==
    [goos |-> "linux", dirs |-> {2}, bins |-> {"apt", "certutil", "sudo"},
     uid0 |-> FALSE, firefox |-> TRUE,
     profiles |-> <<"cert9", "missing", "missing", "cert8">>, roProfiles |-> {},
     javaHome |-> TRUE, keytool |-> TRUE, cacerts |-> {"lib"}, javaRO |-> TRUE,
     javaFp |-> "sha256", carootOK |-> TRUE, brew |-> "none", certutils |-> {}]

\* a container: superuser, Red Hat family, the system NSS database, an old JRE
Container ==
    [Workstation EXCEPT !.dirs = {1, 4}, !.bins = {"yum", "certutil"}, !.uid0 = TRUE,
                        !.firefox = FALSE,
                        !.profiles = <<"missing", "dir", "both", "missing">>,
                        !.cacerts = {"lib", "jre"}, !.javaFp = "sha1"]

\* no sudo and not the superuser; the user's database is read-only
NoSudo ==
    [Workstation EXCEPT !.bins = {"apt", "certutil"}, !.roProfiles = {1},
                        !.profiles = <<"cert9", "missing", "missing", "missing">>]

\* nothing to install into: no anchor directory, no certutil, no keytool
Bare ==
    [Workstation EXCEPT !.dirs = {}, !.bins = {"zypper", "sudo"}, !.keytool = FALSE,
                        !.profiles = <<"missing", "missing", "missing", "missing">>]

\* certutil but no database yet, no JAVA_HOME, no package manager
Fresh ==
    [Workstation EXCEPT !.dirs = {3}, !.bins = {"certutil", "sudo"}, !.javaHome = FALSE,
                        !.profiles = <<"file", "missing", "missing", "missing">>]

\* the CAROOT cannot be created
ReadOnlyHome == [Workstation EXCEPT !.carootOK = FALSE]

Machines == {Workstation, Container, NoSudo, Bare, Fresh, ReadOnlyHome}

Modes == {"install", "uninstall", "generate"}

\* values of $TRUST_STORES
AllStores == <<>>
TrustStores == {AllStores, <<"nss", ",", "java">>, <<"system">>, <<"Java">>}

example == <<"a", ".", "b">>

\* the stubs of the test harness: a tool, a sub-command, the output
Faults ==
    {[name |-> "certutil", op |-> o, out |-> <<"certutil:", "stub failure">>] :
         o \in {"-V", "-A", "-D"}}
    \cup {[name |-> "keytool", op |-> o, out |-> <<"keytool error:", "stub failure">>] :
              o \in {"-list", "-importcert", "-delete"}}
    \cup {[name |-> "tee", op |-> "", out |-> <<"tee:", "stub failure">>],
          [name |-> "rm", op |-> "", out |-> <<"rm:", "stub failure">>],
          [name |-> "update-ca-certificates", op |-> "", out |-> <<"stub failure">>]}

TypeOK ==
    /\ env \in Machines
    /\ pc \in {"idle", "mkdir", "loadCA", "sys", "nss", "java", "names", "cert"}
    /\ mode \in Modes \cup {""}
    /\ runs \in 0..(MaxRuns + 1)
    /\ faultLeft \in 0..(MaxFail + 1)
    /\ sysTrust \in BOOLEAN
    /\ keystore \in 0..1

\* the state before the first process: a machine of ms, the files f, the
\* system bundle with the CA or not, no CA in the NSS databases and the keystore
BootTrusted(ms, f, t) ==
    /\ env \in ms
    /\ files = f
    /\ sysTrust = t
    /\ nssdb = <<>>
    /\ keystore = 0
    /\ pc = "idle"
    /\ mode = ""
    /\ stores = <<>>
    /\ args = <<>>
    /\ input = <<>>
    /\ warning = FALSE
    /\ ignoreCheckFailure = FALSE
    /\ sudoWarned = FALSE
    /\ faultKind = NoFault
    /\ faultLeft = 0
    /\ cmds = <<>>
    /\ out = <<>>
    /\ ops = <<>>
    /\ exit = ""
    /\ exitAt = ""
    /\ issued = <<>>
    /\ hist = [b \in {"sys", "nss", "java"} |-> <<>>]
    /\ runs = 0
    /\ once = [b \in {"nss", "java"} |-> NewOnce(b)]
    /\ gor = [g \in Goroutines |-> Idle]
    /\ linux = [writes |-> 0, vars |-> ZeroPlatform]

\* the state before the first process when no CA is in any trust store
Boot(ms, f) == BootTrusted(ms, f, FALSE)

Init == Boot(Machines, <<>>)

\* a process starts with any mode, allow-list and stub
Start ==
    \E m \in Modes, ts \in TrustStores, fk \in Faults \cup {NoFault}, n \in 1..MaxFail :
        /\ runs < MaxRuns
        /\ fk = NoFault => n = 1
        /\ fk # NoFault => ts = AllStores
        /\ StartRun(m, ts, IF m = "install" /\ fk = NoFault /\ ts = AllStores
                           THEN <<>> ELSE <<example>>, fk, n)

Steps ==
    \/ Mkdir
    \/ LoadCA
    \/ installSystem
    \/ installNSS
    \/ installJava
    \/ uninstallNSS
    \/ uninstallJava
    \/ uninstallSystem
    \/ checkSystem
    \/ checkNSS
    \/ checkJava
    \/ validateNames
    \/ makeCert

Next == Start \/ Steps

Spec == Init /\ [][Next]_vars


\* processes without stubs, one after the other on one machine
StartClean ==
    \E m \in Modes, ts \in {AllStores, <<"nss", ",", "java">>} :
        /\ runs < MaxClean
        /\ StartRun(m, ts, IF m = "install" THEN <<>> ELSE <<example>>, NoFault, 1)

NextClean == StartClean \/ Steps

SpecClean == Init /\ [][NextClean]_vars

\* the names asked for on the command line
Names ==
    { example,
      <<"*", ".", "a">>,
      <<"!">>,
      <<"a", "\"", "b">>,
      <<"1", ".", "2", ".", "3", ".", "4">>,
      <<":", ":", "1">>,
      <<"a", "@", "b", ".", "c">>,
      <<"h", ":", "/", "/", "a">>,
      <<"ü", ".", "a">>,
      <<"x", "n", "-", "-", "*">> }

NameLists == UNION {[1..n -> Names] : n \in 1..MaxNames}

\* one process asked for a certificate, with or without -install
StartNames ==
    \E m \in {"install", "generate"}, names \in NameLists :
        /\ runs = 0
        /\ StartRun(m, <<"system">>, names, NoFault, 1)

NextNames ==
    \/ StartNames
    \/ Mkdir
    \/ LoadCA
    \/ installSystem
    \/ installNSS
    \/ installJava
    \/ checkSystem
    \/ checkNSS
    \/ checkJava
    \/ validateNames
    \/ makeCert

SpecNames == Init /\ [][NextNames]_vars


\* what the certificate file and the key file of the root directory can
\* hold before a process starts; "" is no file
CertContents == {"", "CERT", ZeroBytes, NotPEM}
KeyContents == {"", "KEY", ZeroBytes, NotPEM, "CERT"}

\* a root directory left behind by earlier use: no CA, or a certificate
\* file with any key file
InitCA ==
    \E c \in CertContents, k \in KeyContents :
        /\ c = "" => k = ""
        /\ Boot({Workstation, Bare, Fresh},
                WriteFile(WriteFile(<<>>, caCertPath, c), caKeyPath, k))

\* processes without stubs on a machine with such a root directory
StartCA ==
    \E m \in Modes :
        /\ runs < MaxCA
        /\ StartRun(m, AllStores, IF m = "install" THEN <<>> ELSE <<example>>, NoFault, 1)

NextCA == StartCA \/ Steps

SpecCA == InitCA /\ [][NextCA]_vars

\* the CA files of a root directory in use
UsedRoot == WriteFile(WriteFile(<<>>, caCertPath, "CERT"), caKeyPath, "KEY")

\* a machine on which earlier versions were used: in its first anchor
\* directory the CA under the unique name, under the legacy name, under
\* both or under neither, the system bundle refreshed since
InitLegacy ==
    \E m \in {Workstation, Container, NoSudo, Bare} :
    \E u \in {"", "CERT"}, l \in {"", "CERT"} :
        /\ m.dirs = {} => u = "" /\ l = ""
        /\ \E f \in {IF m.dirs = {} THEN UsedRoot
                      ELSE WriteFile(WriteFile(UsedRoot, systemTrustFilename(InitPlatform(m), ca), u),
                                     legacyFilename(InitPlatform(m)), l)} :
               BootTrusted({m}, f, u = "CERT" \/ l = "CERT")

SpecLegacy == InitLegacy /\ [][NextCA]_vars

---------------------------------------------------------------------------
(* The command runners called one by one: execCertutil, execKeytool and    *)
(* SudoExec with the commands the backends hand them                       *)

\* a workstation whose NSS database only the superuser writes
Managed == [Workstation EXCEPT !.roProfiles = {1}]

\* no sudo, not the superuser, the database and the keystore the user's own
OwnStores == [NoSudo EXCEPT !.roProfiles = {}, !.javaRO = FALSE]

\* machines with and without sudo, the superuser's, and the first two as
\* runtime.GOOS "windows" has them
ToolMachines ==
    {Managed, NoSudo, OwnStores, Container}
    \cup {[m EXCEPT !.goos = "windows"] : m \in {Managed, NoSudo}}

\* the import and the delete InstallNSS and UninstallNSS hand to execCertutil
CertutilCmds ==
    { Command("/usr/bin/certutil",
              <<"-A", "-d", "sql:" \o NssCand[1], "-t", "C,,", "-n", Str(ca.UniqueName),
                "-i", JoinPath(CAROOT, ca.FileName)>>),
      Command("/usr/bin/certutil",
              <<"-D", "-d", "sql:" \o NssCand[1], "-n", Str(ca.UniqueName)>>) }

\* the import and the delete InstallJava and UninstallJava hand to execKeytool
KeytoolCmds ==
    { Command(InitJava(env).keytoolPath,
              <<"-importcert", "-noprompt", "-keystore", InitJava(env).cacertsPath,
                "-storepass", storePass, "-file", JoinPath(CAROOT, ca.FileName),
                "-alias", Str(ca.UniqueName)>>),
      Command(InitJava(env).keytoolPath,
              <<"-delete", "-alias", Str(ca.UniqueName),
                "-keystore", InitJava(env).cacertsPath, "-storepass", storePass>>) }

\* the commands handed to SudoExec directly: the imports
SudoCmds == {c \in CertutilCmds \cup KeytoolCmds : Head(c.argv) \in {"-A", "-importcert"}}

\* stubs whose failure carries no signature, and stubs whose failure does
ToolFaults ==
    { [name |-> "certutil", op |-> "-A", out |-> <<"certutil:", "stub failure">>],
      [name |-> "certutil", op |-> "-D", out |-> <<"certutil:", "SEC_ERROR_READ_ONLY">>],
      [name |-> "keytool", op |-> "-importcert", out |-> <<"keytool error:", "stub failure">>],
      [name |-> "keytool", op |-> "-delete",
       out |-> <<"keytool error:", "java.io.FileNotFoundException">>] }

\* the note of one call of a command runner: the command handed in, the
\* executions it made, the output and the error it returned
Call(fn, c, s0, r) ==
    [backend |-> "tool", op |-> fn, cmd |-> c, ok |-> r.err = "", err |-> r.err,
     out |-> r.out, from |-> Len(s0.cmds) + 1, to |-> Len(r.s.cmds),
     changed |-> Stores(r.s) # Stores(s0), warned |-> s0.sudoWarned]

InitTools == BootTrusted(ToolMachines, UsedRoot, FALSE)

\* a process starts at position p in mode m, with stub fk failing n times
StartProc(p, m, fk, n) ==
    /\ pc = "idle"
    /\ runs' = runs + 1
    /\ pc' = p
    /\ mode' = m
    /\ stores' = <<>>
    /\ args' = <<>>
    /\ input' = <<>>
    /\ faultKind' = fk
    /\ faultLeft' = IF fk = NoFault THEN 0 ELSE n
    /\ warning' = FALSE
    /\ ignoreCheckFailure' = FALSE
    /\ sudoWarned' = FALSE
    /\ cmds' = <<>>
    /\ out' = <<>>
    /\ ops' = <<>>
    /\ exit' = ""
    /\ exitAt' = ""
    /\ issued' = <<>>
    /\ UNCHANGED <<env, once, gor, linux, files, sysTrust, nssdb, keystore, hist>>

\* a process starts that will call the runners
StartTools ==
    \E fk \in ToolFaults \cup {NoFault}, n \in 1..MaxFail :
        /\ runs < MaxProc
        /\ fk = NoFault => n = 1
        /\ StartProc("tool", "", fk, n)

\* what a call leaves alone
CallFrame ==
    UNCHANGED <<env, once, gor, linux, mode, stores, args, input, warning, ignoreCheckFailure,
                faultKind, issued, hist, runs>>

CallExecCertutil ==
    /\ pc = "tool" /\ Len(ops) < MaxCalls
    /\ \E c \in CertutilCmds : \E r \in {execCertutil(Cur, c)} :
           Move(r.s, <<Call("execCertutil", c, Cur, r)>>, <<>>, "", "tool")
    /\ CallFrame

CallExecKeytool ==
    /\ pc = "tool" /\ Len(ops) < MaxCalls
    /\ \E c \in KeytoolCmds : \E r \in {execKeytool(Cur, InitJava(env), c)} :
           Move(r.s, <<Call("execKeytool", c, Cur, r)>>, <<>>, "", "tool")
    /\ CallFrame

CallSudoExec ==
    /\ pc = "tool" /\ Len(ops) < MaxCalls
    /\ \E c \in SudoCmds : \E r \in {SudoExec(Cur, c)} :
           Move(r.s, <<Call("SudoExec", c, Cur, r)>>, <<>>, "", "tool")
    /\ CallFrame

\* the process ends
ExitTools ==
    /\ pc = "tool"
    /\ Move(Cur, <<>>, <<>>, "", "end")
    /\ CallFrame

NextTools == StartTools \/ CallExecCertutil \/ CallExecKeytool \/ CallSudoExec \/ ExitTools

SpecTools == InitTools /\ [][NextTools]_vars

---------------------------------------------------------------------------
(* The keychain+plist strategy: Install and Uninstall of the macOS         *)
(* platform store, one call in a process                                   *)

\* a Mac user with sudo, the superuser, a user without sudo
Mac == [Workstation EXCEPT !.goos = "darwin", !.dirs = {}, !.bins = {"sudo"}]
Macs == {Mac, [Mac EXCEPT !.uid0 = TRUE], [Mac EXCEPT !.bins = {}]}

\* entries the admin trust settings can hold before mkcert runs: another
\* authority with trust settings of its own, an entry without issuerName,
\* and an earlier CA of the same subject
PriorEntries ==
    [corp |-> [hasIssuer |-> TRUE, issuerName |-> asn1Marshal(CorpSubject), hasTrust |-> TRUE,
               trustSettings |-> << [kSecTrustSettingsPolicy |-> "KoZIhvdjZAED",
                                     kSecTrustSettingsPolicyName |-> "sslServer",
                                     kSecTrustSettingsResult |-> 3] >>],
     bare |-> [hasIssuer |-> FALSE, issuerName |-> <<>>, hasTrust |-> FALSE,
               trustSettings |-> <<>>],
     old |-> PlainEntry(asn1Marshal(CASubject))]

\* the orders in which the trust-list map can yield its keys
KeyOrders ==
    {o \in [1..4 -> {CAKey, "corp", "bare", "old"}] :
        \A i, j \in 1..4 : i # j => o[i] # o[j]}

\* the failures of one process: a failing security sub-command, or a
\* failing call of the operating system
DarwinFaults ==
    {[name |-> "security", op |-> o, out |-> <<"security:", "stub failure">>] :
         o \in {"add-trusted-cert", "trust-settings-export", "trust-settings-import"}}
    \cup {[name |-> "os", op |-> o, out |-> <<>>] :
              o \in {"temp", "read", "parse", "marshal", "write"}}

\* the trust settings have version 1, another version, or none (0)
InitDarwin ==
    \E v \in {1, 2, 0}, ks \in SUBSET {"corp", "bare", "old"} :
        BootTrusted(Macs,
                    WriteFile(UsedRoot, AdminTrust,
                              [trustVersion |-> v, trustList |-> [k \in ks |-> PriorEntries[k]]]),
                    FALSE)

StartDarwin ==
    \E m \in {"install", "uninstall"}, fk \in DarwinFaults \cup {NoFault} :
        /\ runs < MaxMac
        /\ StartProc("darwin", m, fk, 1)

\* the note of a platform operation of this strategy
DarwinOp(op, s0, r) ==
    [backend |-> "sys", op |-> op, ok |-> r.ok, err |-> r.err,
     from |-> Len(s0.cmds) + 1, to |-> Len(r.s.cmds),
     changed |-> Stores(r.s) # Stores(s0),
     panic |-> r.panic, exported |-> r.exported, edited |-> r.edited]

\* how the process ends after the operation returned r
DarwinEnd(r) ==
    IF r.panic THEN [exit |-> "panic", lines |-> <<"panic: interface conversion">>]
    ELSE [exit |-> logErr(r.ok, r.err).exit, lines |-> logErr(r.ok, r.err).lines]

CallInstallPlatform ==
    /\ pc = "darwin" /\ mode = "install"
    /\ \E ord \in KeyOrders : \E r \in {InstallPlatformDarwin(Cur, ord)} :
           Move(r.s, <<DarwinOp("install", Cur, r)>>, DarwinEnd(r).lines, DarwinEnd(r).exit, "end")
    /\ CallFrame

CallUninstallPlatform ==
    /\ pc = "darwin" /\ mode = "uninstall"
    /\ \E r \in {UninstallPlatformDarwin(Cur)} :
           Move(r.s, <<DarwinOp("uninstall", Cur, r)>>, DarwinEnd(r).lines, DarwinEnd(r).exit, "end")
    /\ CallFrame

NextDarwin == StartDarwin \/ CallInstallPlatform \/ CallUninstallPlatform

SpecDarwin == InitDarwin /\ [][NextDarwin]_vars


---------------------------------------------------------------------------
(* Properties *)

Backends == {"sys", "nss", "java"}

\* the operations of the running (or last) process on backend b
OpsOf(b) == SelectSeq(ops, LAMBDA o : o.backend = b)

\* the history of backend b before the running (or last) process
Prior(b) == SubSeq(hist[b], 1, Len(hist[b]) - Len(OpsOf(b)))

\* the commands that add the CA to a store
IsImport(c) ==
    \/ ToolOf(c.name) = "certutil" /\ Head(c.argv) = "-A"
    \/ ToolOf(c.name) = "keytool" /\ Head(c.argv) = "-importcert"
    \/ c.name = "tee"

\* the commands that do not write
IsReadOnly(c) ==
    \/ ToolOf(c.name) = "certutil" /\ Head(c.argv) = "-V"
    \/ ToolOf(c.name) = "keytool" /\ Head(c.argv) = "-list"

\* the commands an operation ran
CmdsOf(o) == {cmds[k] : k \in o.from..o.to}

\* the anchor files that hold the CA
AnchorFiles ==
    {p \in DOMAIN files :
        /\ files[p] = "CERT"
        /\ \E i \in 1..4 : \E n \in AnchorNames(i) : p = JoinPath(AnchorDir[i], n)}

\* the databases of the machine that certutil finds
Databases ==
    {(IF env.profiles[i] \in {"cert9", "both"} THEN "sql:" ELSE "dbm:") \o NssCand[i] :
        i \in {k \in 1..4 : env.profiles[k] \in {"cert9", "cert8", "both"}}}

\* backend b holds exactly n entries of the CA, in every database it has
Holds(b, n) ==
    CASE b = "sys" -> Cardinality(AnchorFiles) = n /\ (sysTrust <=> n > 0)
      [] b = "nss" -> \A db \in Databases :
                          (IF db \in DOMAIN nssdb THEN nssdb[db] ELSE 0) = n
      [] OTHER -> keystore = n

AlreadyInstalled(b) ==
    CASE b = "sys" -> "The local CA is already installed in the system trust store!"
      [] b = "nss" -> "The local CA is already installed in the NSS trust store!"
      [] OTHER -> "The local CA is already installed in Java's trust store!"

\* the previous operation on b was a successful Install and the running
\* install is past b
SecondInstall(b) ==
    /\ mode = "install"
    /\ OpsOf(b) # <<>>
    /\ Prior(b) # <<>>
    /\ Prior(b)[Len(Prior(b))] = "install"

\* C1: on each backend, an Install that follows a successful Install of the
\* same CA runs Check only, which finds the CA; it prints "already
\* installed", runs no command that adds the CA, ends in no error, and the
\* backend holds exactly one entry of the CA.
C1_SecondInstallIsNoOp ==
    \A b \in Backends :
        SecondInstall(b) =>
            /\ Len(OpsOf(b)) = 1
            /\ OpsOf(b)[1].op = "check"
            /\ OpsOf(b)[1].ok
            /\ OpsOf(b)[1].err = Nil
            /\ AlreadyInstalled(b) \in Range(out)
            /\ \A c \in CmdsOf(OpsOf(b)[1]) : ~IsImport(c.cmd)
            /\ ~(exitAt = b /\ exit \in {"fatal", "panic"})
            /\ Holds(b, 1)

\* a second install has gone through the three backends, each of which the
\* first install had installed into
C1_Witness ==
    /\ pc = "idle"
    /\ exit = "ok"
    /\ \A b \in Backends : SecondInstall(b)


\* the events of backend b from position i on are a successful Install, a
\* successful Uninstall and a Check
RoundTrip(b, i) ==
    /\ i + 2 <= Len(hist[b])
    /\ hist[b][i] = "install"
    /\ hist[b][i + 1] = "uninstall"
    /\ hist[b][i + 2] \in {"found", "notfound"}

\* C2: on each backend, Install into a store without the CA, then Uninstall,
\* then Check of the same CA: the Check reports not installed (and the store
\* holds no entry of the CA as long as nothing is installed again).
C2_RoundTripNotInstalled ==
    \A b \in Backends :
        \A i \in 1..Len(hist[b]) :
            RoundTrip(b, i) =>
                /\ i > 1
                /\ hist[b][i - 1] = "notfound"
                /\ hist[b][i + 2] = "notfound"
                /\ (i + 2 = Len(hist[b]) => Holds(b, 0))

\* the three backends have each gone through Install, Uninstall and Check
C2_Witness ==
    /\ pc = "idle"
    /\ \A b \in Backends : RoundTrip(b, 2) /\ Len(hist[b]) = 4

\* C3: no step of an uninstall invocation removes or changes a root
\* certificate file or root key file that is there, whatever the backends
\* report.
C3_UninstallKeepsCAFiles ==
    [][(mode = "uninstall" /\ pc # "idle") =>
          \A p \in {caCertPath, caKeyPath} :
              ReadFile(files, p) # "" => ReadFile(files', p) = ReadFile(files, p)]_vars

\* an uninstall invocation has taken the CA out of a store and has ended,
\* with or without an error, and the CA files are there
C3_Witness ==
    /\ mode = "uninstall"
    /\ pc = "idle"
    /\ \E i \in DOMAIN ops : ops[i].op = "uninstall" /\ ops[i].changed
    /\ \E i \in DOMAIN ops : ops[i].op = "uninstall" /\ ops[i].err.Fatal.set
    /\ ReadFile(files, caCertPath) = "CERT"
    /\ ReadFile(files, caKeyPath) = "KEY"


\* the name of backend b in $TRUST_STORES
StoreName(b) == IF b = "sys" THEN "system" ELSE b

\* $TRUST_STORES is empty or has the name of b between its commas
Listed(b) ==
    \/ stores = <<>>
    \/ \E i \in DOMAIN stores :
           /\ stores[i] = StoreName(b)
           /\ (i = 1 \/ stores[i - 1] = ",")
           /\ (i = Len(stores) \/ stores[i + 1] = ",")

\* backend b is enabled: listed, and for Java a Java home is configured
Enabled(b) == Listed(b) /\ (b = "java" => env.javaHome)

\* the machine has what backend b looks for before anything else: for NSS a
\* database directory or a Firefox
Present(b) ==
    b = "nss" => (env.firefox \/ \E i \in 1..3 : env.profiles[i] # "missing")

Attempted(b) == OpsOf(b) # <<>>

\* the position of backend b in the order of mode m
Pos(m, b) == CHOOSE k \in 1..3 : Order(m)[k] = b

\* an install or uninstall invocation has ended after it got to the stores
TrustRunEnded ==
    /\ pc = "idle"
    /\ mode \in {"install", "uninstall"}
    /\ exitAt \notin {"", "mkdir", "loadCA"}

\* the process ended in backend e, before it got to backend b
CutBefore(b) ==
    /\ exit \in {"fatal", "panic"}
    /\ exitAt \in Backends
    /\ Pos(mode, exitAt) < Pos(mode, b)

\* C4 as stated: in one install or uninstall invocation every enabled
\* backend is attempted, whatever happened to the backends before it.
C4_AllEnabledAttempted ==
    TrustRunEnded => \A b \in Backends : (Enabled(b) /\ Present(b)) => Attempted(b)

\* C4: in one install or uninstall invocation the enabled backends are
\* attempted in order until one ends the process with a fatal error or an
\* unhandled warning: an enabled backend is attempted exactly if the process
\* did not end in a backend before it, so a failure that does not end the
\* process keeps no later backend from its attempt, and every attempt leaves
\* its own result.
C4_AttemptedUntilFatal ==
    TrustRunEnded =>
        \A b \in Backends :
            (Enabled(b) /\ Present(b)) => (Attempted(b) <=> ~CutBefore(b))

\* an install ended with a fatal error in NSS after the system store was
\* attempted; Java is enabled and was not attempted
C4_Witness ==
    /\ TrustRunEnded
    /\ mode = "install"
    /\ exit = "fatal"
    /\ exitAt = "nss"
    /\ Attempted("sys")
    /\ Enabled("java")
    /\ ~Attempted("java")

\* the error of operation o is a warning and nothing else
WarningOnly(o) == o.err.Warning # NoWarning /\ ~o.err.Fatal.set

\* C5 as stated: a backend result that carries only a warning never ends
\* the invocation.
C5_WarningNeverTerminates ==
    \A i \in DOMAIN ops :
        WarningOnly(ops[i]) =>
            ~(i = Len(ops) /\ pc = "idle" /\ exit \in {"fatal", "panic"}
                /\ exitAt = ops[i].backend)


\* execution k of the process failed
Failed(k) == cmds[k].err # ""

\* execution k failed with the signature that sends execCertutil or
\* execKeytool to the escalation retry, and the retry follows in operation o
Retried(o, k) ==
    /\ \/ /\ ToolOf(cmds[k].cmd.name) = "certutil"
          /\ Contains(cmds[k].out, <<"SEC_ERROR_READ_ONLY">>)
       \/ /\ ToolOf(cmds[k].cmd.name) = "keytool"
          /\ Contains(cmds[k].out, <<"java.io.FileNotFoundException">>)
    /\ k < o.to
    /\ cmds[k + 1].cmd.name = cmds[k].cmd.name
    /\ cmds[k + 1].cmd.argv = cmds[k].cmd.argv

\* the recognized conditions: "does not exist" on keytool -delete, and the
\* signatures that trigger the escalation retry
Recognized(o, k) ==
    \/ /\ ToolOf(cmds[k].cmd.name) = "keytool"
       /\ Head(cmds[k].cmd.argv) = "-delete"
       /\ Contains(cmds[k].out, <<"does not exist">>)
    \/ Retried(o, k)

\* the words of a fatal error name the command c
NamesCommand(words, c) ==
    /\ words # <<>>
    /\ words[1] = ToolOf(c.name)
    /\ (words[1] \in {"certutil", "keytool"} => Len(words) >= 2 /\ words[2] = Head(c.argv))

\* operation o ended in a fatal error that names execution k and carries
\* its output
FatalFor(o, k) ==
    /\ ~o.ok
    /\ o.err.Fatal.set
    /\ o.err.Warning = NoWarning
    /\ NamesCommand(o.err.Fatal.cmd, cmds[k].cmd)
    /\ o.err.Fatal.out = cmds[k].out

\* execution k is certutil -V
IsVerify(k) == ToolOf(cmds[k].cmd.name) = "certutil" /\ Head(cmds[k].cmd.argv) = "-V"

\* C6 as stated: every failed execution of a tool by a backend operation,
\* unless the condition is a recognized one, makes the operation's result a
\* fatal error that names the command and carries its output.
C6_UnrecognizedIsFatal ==
    \A i \in DOMAIN ops : \A k \in ops[i].from..ops[i].to :
        (Failed(k) /\ ~Recognized(ops[i], k)) => FatalFor(ops[i], k)

\* C6: every failed execution of a tool by a backend operation, unless the
\* condition is a recognized one or the tool is certutil -V, makes the
\* operation's result a fatal error that names the command and carries its
\* output; a failed certutil -V, whatever its reason, never makes a fatal
\* error: Check reports not installed without an error, Uninstall goes on
\* without deleting, Install reports the verification warning.
C6_UnrecognizedIsFatalButVerify ==
    \A i \in DOMAIN ops : \A k \in ops[i].from..ops[i].to :
        /\ (Failed(k) /\ ~Recognized(ops[i], k) /\ ~IsVerify(k)) => FatalFor(ops[i], k)
        /\ (Failed(k) /\ IsVerify(k)) =>
              CASE ops[i].op = "check" -> ~ops[i].ok /\ ops[i].err = Nil
                [] ops[i].op = "install" ->
                      ~ops[i].ok /\ ops[i].err = WarningErr("error", ErrUnknownNSS, "")
                [] OTHER -> /\ ~FatalFor(ops[i], k)
                            /\ (k < ops[i].to => Head(cmds[k + 1].cmd.argv) # "-D")

\* an operation ran a command that failed again in its escalation retry,
\* and the operation's result is the fatal error of the retry
C6_Witness ==
    \E i \in DOMAIN ops : \E k \in ops[i].from..ops[i].to :
        /\ k > ops[i].from
        /\ Retried(ops[i], k - 1)
        /\ Failed(k)
        /\ ~Recognized(ops[i], k)
        /\ FatalFor(ops[i], k)

\* C7: Check on a backend runs only certutil -V or keytool -list (none for
\* the system store) and leaves the trust stores and the files as they
\* were, whether it found the CA, did not, or failed.
C7_CheckNeverMutates ==
    \A i \in DOMAIN ops :
        ops[i].op = "check" =>
            /\ ~ops[i].changed
            /\ \A c \in CmdsOf(ops[i]) : IsReadOnly(c.cmd)
            /\ (ops[i].backend = "sys" => ops[i].to < ops[i].from)

\* the checks of one invocation found the CA in NSS and failed in Java,
\* where keytool -list exited nonzero
C7_Witness ==
    /\ mode = "generate"
    /\ \E i \in DOMAIN ops :
           ops[i].op = "check" /\ ops[i].backend = "nss" /\ ops[i].ok /\ ops[i].to > ops[i].from
    /\ \E i \in DOMAIN ops :
           /\ ops[i].op = "check" /\ ops[i].backend = "java" /\ ops[i].err.Fatal.set
           /\ \E c \in CmdsOf(ops[i]) : c.err # ""

\* C8: an operation of a backend is run only if $TRUST_STORES is empty or
\* has the backend's name (system, nss, java) as one of its comma-separated
\* entries, and for Java only if a Java home is configured.
C8_OnlyEnabledBackends ==
    \A i \in DOMAIN ops : Enabled(ops[i].backend)

\* with TRUST_STORES=nss,java an invocation has run NSS and Java operations
C8_Witness ==
    /\ stores = <<"nss", ",", "java">>
    /\ pc = "idle"
    /\ Attempted("nss")
    /\ Attempted("java")
    /\ ~Attempted("sys")


\* name is no IP literal, no email address, no URI with scheme and host,
\* and its ASCII form is no hostname
Invalid(name) ==
    /\ ~ParseIP(name)
    /\ ~IsEmail(name)
    /\ ~IsURI(name)
    /\ (ToASCII(name).err # "" \/ ~hostnameRegexp(ToASCII(name).name))

\* the process got to the names it was asked for
NamesChecked ==
    \/ pc = "cert"
    \/ pc = "idle" /\ exitAt \in {"names", "cert"} /\ input # <<>>

NotValid == " is not a valid hostname, IP, URL or email"

\* the endings of the invalid-name line: none, or the error of the
\* conversion to ASCII
Endings == {"", ": idna: invalid label"}

NoLeaf ==
    /\ issued = <<>>
    /\ \A p \in DOMAIN files : files[p] \notin {"LEAF", "LEAFKEY"}

\* C9 as stated: when a name of the list is invalid, the process ends with
\* the fatal invalid-name line, which has that name between double quotes
\* as it was typed, and no certificate is issued.
C9_InvalidNameVerbatim ==
    (NamesChecked /\ \E i \in DOMAIN input : Invalid(input[i])) =>
        /\ exit = "fatal"
        /\ NoLeaf
        /\ \E i \in DOMAIN input : \E e \in Endings :
               /\ Invalid(input[i])
               /\ out[Len(out)] = "ERROR: \"" \o Str(input[i]) \o "\"" \o NotValid \o e

\* C9: when a name of the list is invalid, the process ends with the fatal
\* invalid-name line for the first invalid name, which has that name as a
\* quoted Go string (a double quote or backslash of the name is escaped by
\* a backslash; the name is as typed only when it has neither), followed by
\* the conversion error if the conversion to ASCII failed; no certificate
\* is issued, for no name of the list.
C9_InvalidNameQuoted ==
    (NamesChecked /\ \E i \in DOMAIN input : Invalid(input[i])) =>
        LET i == CHOOSE k \in DOMAIN input :
                     Invalid(input[k]) /\ \A j \in 1..(k - 1) : ~Invalid(input[j])
        IN /\ exit = "fatal"
           /\ exitAt = "names"
           /\ NoLeaf
           /\ out[Len(out)] = "ERROR: " \o Str(Quote(input[i])) \o NotValid
                                 \o (IF ToASCII(input[i]).err # ""
                                     THEN ": " \o ToASCII(input[i]).err ELSE "")
           /\ (Range(input[i]) \cap {"\"", "\\"} = {} =>
                   Str(Quote(input[i])) = "\"" \o Str(input[i]) \o "\"")

\* a valid name, then a name with a double quote: the process has ended
\* with the line that quotes the second, and has issued nothing
C9_Witness ==
    /\ input = <<example, <<"a", "\"", "b">>>>
    /\ pc = "idle"
    /\ exit = "fatal"
    /\ out[Len(out)] = "ERROR: \"a\\\"b\"" \o NotValid
    /\ NoLeaf

\* the decimal numerals of the counts that occur
Decimal(n) ==
    IF n < 10 THEN <<"0", "1", "2", "3", "4", "5", "6", "7", "8", "9">>[n + 1]
    ELSE "many"

\* C10: the certificate is written to base.pem and the key to base-key.pem,
\* where base is a function of the list of names handed to the engine: the
\* first name, its leading "*." written "_wildcard.", followed for N > 1
\* names by "+" and N-1.
C10_FileNames ==
    issued # <<>> =>
        LET hosts == issued[1].names
            first == hosts[1]
            wild == Len(first) >= 2 /\ first[1] = "*" /\ first[2] = "."
            base == (IF wild THEN "_wildcard." \o Str(SubSeq(first, 3, Len(first)))
                     ELSE Str(first))
                    \o (IF Len(hosts) > 1 THEN "+" \o Decimal(Len(hosts) - 1) ELSE "")
        IN /\ issued[1].certFile = "./" \o base \o ".pem"
           /\ issued[1].keyFile = "./" \o base \o "-key.pem"
           /\ ReadFile(files, issued[1].certFile) = "LEAF"
           /\ ReadFile(files, issued[1].keyFile) = "LEAFKEY"

\* a certificate was issued for a wildcard name and an IP address
C10_Witness ==
    /\ input = << <<"*", ".", "a">>, <<"1", ".", "2", ".", "3", ".", "4">> >>
    /\ issued # <<>>
    /\ issued[1].certFile = "./_wildcard.a+1.pem"
    /\ issued[1].keyFile = "./_wildcard.a+1-key.pem"


---------------------------------------------------------------------------
(* Loading the root CA *)

\* the certificate file and the key file of the root directory
CertFile == ReadFile(files, caCertPath)
KeyFile == ReadFile(files, caKeyPath)

\* the step from this state is the loading of the CA
Loading == pc = "loadCA"

\* this step ends the process with the fatal line of the error
FailsWith(err) ==
    /\ pc' = "idle"
    /\ exit' = "fatal"
    /\ exitAt' = "loadCA"
    /\ out' = Append(out, "ERROR: " \o err)

\* the process ended in the loading of the CA, with the line of the error
LoadFailed(err) ==
    /\ pc = "idle"
    /\ exit = "fatal"
    /\ exitAt = "loadCA"
    /\ ("ERROR: " \o err) \in Range(out)

\* C11 as stated: the loading fails with the missing-key error whenever the
\* certificate file exists and the key file is absent or empty.
C11_MissingKeyWheneverAbsentOrEmpty ==
    [][(Loading /\ CertFile # "" /\ KeyFile \in {"", ZeroBytes})
           => FailsWith(ErrKeyMissing)]_vars

\* C11: the loading fails with the missing-key error exactly when the
\* certificate file holds a PEM certificate and there is no key file; the
\* error is not the unexpected-content error, which is what a key file of
\* zero bytes and a certificate file that is no PEM certificate give.
C11_MissingKeyIffKeyAbsent ==
    [][Loading =>
          /\ FailsWith(ErrKeyMissing) <=> (pemType(CertFile) = "CERTIFICATE" /\ KeyFile = "")
          /\ FailsWith(ErrKeyMissing) => ~FailsWith(ErrKeyContent) /\ ~FailsWith(ErrCertContent)
          /\ (pemType(CertFile) = "CERTIFICATE" /\ KeyFile = ZeroBytes)
                 => FailsWith(ErrKeyContent)
          /\ (CertFile # "" /\ pemType(CertFile) # "CERTIFICATE")
                 => FailsWith(ErrCertContent)]_vars

\* a process asked for a certificate found the certificate and no key, and
\* ended with the missing-key error
C11_Witness ==
    /\ LoadFailed(ErrKeyMissing)
    /\ mode = "generate"
    /\ CertFile = "CERT"
    /\ KeyFile = ""

---------------------------------------------------------------------------
(* The root directory *)

\* the line of the storage error
ErrCreateCAROOT == "ERROR: failed to create the CAROOT: mkdir"

\* C13: on a machine whose root directory cannot be created, a process gets
\* no further than the creation of the directory: it ends there with the
\* fatal storage error, and no CA is loaded or created, no operation is made
\* on a backend, no command is run and nothing is issued.
C13_NoRootDirIsFatalFirst ==
    ~env.carootOK =>
        /\ pc \in {"idle", "mkdir"}
        /\ exit # "" => (exit = "fatal" /\ exitAt = "mkdir" /\ out = <<ErrCreateCAROOT>>)
        /\ ~pathExists(files, caCertPath)
        /\ ~pathExists(files, caKeyPath)
        /\ "Created a new local CA" \notin Range(out)
        /\ ops = <<>>
        /\ cmds = <<>>
        /\ issued = <<>>
        /\ \A b \in {"sys", "nss", "java"} : hist[b] = <<>>

\* an install on such a machine has ended with the storage error
C13_Witness ==
    /\ ~env.carootOK
    /\ mode = "install"
    /\ pc = "idle"
    /\ exit = "fatal"
    /\ exitAt = "mkdir"
    /\ ErrCreateCAROOT \in Range(out)


---------------------------------------------------------------------------
(* Generate mode *)

\* the notes of generate mode
NoteLines ==
    {"Note: the local CA is not installed in the system trust store.",
     "Note: the local CA is not installed in the Java trust store.",
     "Run mkcert -install for certificates to be trusted automatically"}

\* the process has been through the trust step of generate mode and found
\* the CA missing in an enabled store
FoundMissing == mode = "generate" /\ warning

\* C14: a process without -install and -uninstall only checks: it makes no
\* Install and no Uninstall on any backend, runs no command that adds or
\* removes the CA and leaves the trust stores as they are; finding the CA
\* missing in an enabled store makes it log notes, never end: it ends before
\* the certificate only by a fatal error of a check, and otherwise goes on
\* to issue the certificate asked for.
C14_GenerateOnlyNotes ==
    mode = "generate" =>
        /\ \A i \in DOMAIN ops : ops[i].op = "check" /\ ~ops[i].changed
        /\ \A k \in DOMAIN cmds : IsReadOnly(cmds[k].cmd)
        /\ (FoundMissing /\ exit # "fatal")
               => "Run mkcert -install for certificates to be trusted automatically"
                      \in Range(out) \/ pc \in {"sys", "nss", "java"}
        /\ (pc = "idle" /\ exit = "fatal" /\ exitAt \in Backends)
               => ops[Len(ops)].err.Fatal.set
        /\ exit # "panic"
        /\ (pc = "idle" /\ exit = "ok" /\ args # <<>>)
               => /\ issued # <<>>
                  /\ issued[1].names = args

\* a process asked for a certificate found the CA in no store, logged the
\* notes and issued the certificate
C14_Witness ==
    /\ FoundMissing
    /\ pc = "idle"
    /\ exit = "ok"
    /\ Len(ops) = 3
    /\ \A i \in DOMAIN ops : ~ops[i].ok
    /\ NoteLines \subseteq Range(out)
    /\ issued # <<>>


---------------------------------------------------------------------------
(* Java Check *)

\* the fingerprints of the CA certificate in upper-case hex, octet by octet
SHA1Upper == <<"A1", "0F">>
SHA256Upper == <<"C3", "9D", "4E">>

\* operation i is a Java Check that got a listing from keytool
JavaListed(i) ==
    /\ i \in DOMAIN ops
    /\ ops[i].backend = "java"
    /\ ops[i].op = "check"
    /\ ops[i].from = ops[i].to
    /\ cmds[ops[i].from].err = ""

\* the listing operation i got, as keytool printed it
ListingOf(i) == cmds[ops[i].from].out

\* C15: a Java Check that got the keystore listing reports installed exactly
\* if the listing, its ":" removed, contains the upper-case hex SHA-1
\* fingerprint or the upper-case hex SHA-256 fingerprint of the CA
\* certificate: installed for a listing with the SHA-256 fingerprint only,
\* not installed for a listing with neither; it reports no error.
C15_JavaCheckByFingerprint ==
    \A i \in DOMAIN ops :
        JavaListed(i) =>
            /\ ops[i].err = Nil
            /\ ops[i].ok <=> \/ Contains(Remove(ListingOf(i), ":"), SHA1Upper)
                             \/ Contains(Remove(ListingOf(i), ":"), SHA256Upper)

\* a Java Check reported installed for a listing that has the SHA-256
\* fingerprint with its colons and no SHA-1 fingerprint
C15_Witness ==
    \E i \in DOMAIN ops :
        /\ JavaListed(i)
        /\ ops[i].ok
        /\ Contains(ListingOf(i), <<"C3", ":", "9D", ":", "4E">>)
        /\ ~Contains(Remove(ListingOf(i), ":"), SHA1Upper)


---------------------------------------------------------------------------
(* NSS Check *)

\* operation i is an NSS Check
NSSCheck(i) == i \in DOMAIN ops /\ ops[i].backend = "nss" /\ ops[i].op = "check"

\* execution k validated the CA in a profile: certutil -V exited zero
FoundIn(k) == IsVerify(k) /\ cmds[k].err = ""

\* C16: an NSS Check reports installed only if certutil -V found the CA in
\* at least one discovered profile (and in none of them failed); it never
\* reports an error; without certutil it reports not installed and runs no
\* command.
C16_NSSCheckNeedsAProfile ==
    \A i \in DOMAIN ops :
        NSSCheck(i) =>
            /\ ops[i].err = Nil
            /\ ops[i].ok => \E k \in ops[i].from..ops[i].to : FoundIn(k)
            /\ ops[i].ok <=> /\ ops[i].from <= ops[i].to
                             /\ \A k \in ops[i].from..ops[i].to : FoundIn(k)
            /\ "certutil" \notin env.bins => (~ops[i].ok /\ ops[i].to < ops[i].from)

\* an NSS Check found the CA in the two profiles of the machine
C16_Witness ==
    \E i \in DOMAIN ops :
        NSSCheck(i) /\ ops[i].ok /\ ops[i].to = ops[i].from + 1

\* an NSS Check on a machine without certutil reported not installed and ran
\* nothing
C16_NoToolReached ==
    \E i \in DOMAIN ops :
        NSSCheck(i) /\ "certutil" \notin env.bins /\ ~ops[i].ok /\ ops[i].to < ops[i].from


---------------------------------------------------------------------------
(* NSS Install *)

\* operation i is an NSS Install
NSSInstall(i) == i \in DOMAIN ops /\ ops[i].backend = "nss" /\ ops[i].op = "install"

\* the machine has no NSS profile to discover: no candidate is a directory
\* with a certificate database
NoProfiles == \A p \in 1..Len(NssCand) : env.profiles[p] \notin {"cert9", "cert8", "both"}

\* C17: an NSS Install on a machine with certutil and no discovered profile
\* returns the no-database error; one on a machine without certutil returns
\* the tool-missing error, which is another error value; neither runs a
\* command, and the result of both is not installed and not fatal.
C17_NoDatabaseIsNotNoTool ==
    /\ ErrNoNSSDB \notin {ErrNoCertutil, ErrNoNSS}
    /\ \A i \in DOMAIN ops :
           NSSInstall(i) =>
               /\ ("certutil" \in env.bins /\ NoProfiles)
                      => /\ ops[i].err = WarningErr("NSSError", ErrNoNSSDB, "install")
                         /\ ~ops[i].ok
                         /\ CmdsOf(ops[i]) = {}
               /\ "certutil" \notin env.bins
                      => /\ ops[i].err.Warning.type = "NSSError"
                         /\ ops[i].err.Warning.err \in {ErrNoCertutil, ErrNoNSS}
                         /\ ~ops[i].err.Fatal.set
                         /\ ~ops[i].ok
                         /\ CmdsOf(ops[i]) = {}

\* an install on a machine with certutil and no profile got the no-database
\* error from NSS and went on
C17_Witness ==
    \E i \in DOMAIN ops :
        /\ NSSInstall(i)
        /\ "certutil" \in env.bins
        /\ NoProfiles
        /\ ops[i].err.Warning.err = ErrNoNSSDB
        /\ "ERROR: no NSS security databases found" \in Range(out)
        /\ pc = "idle" /\ exit = "ok"

\* an install on a machine without certutil got the tool-missing error
C17_NoToolReached ==
    \E i \in DOMAIN ops :
        NSSInstall(i) /\ "certutil" \notin env.bins /\ ops[i].err.Warning.err = ErrNoCertutil


---------------------------------------------------------------------------
(* NSS Uninstall *)

\* operation i is an NSS Uninstall on a machine with certutil
NSSUninstall(i) ==
    /\ i \in DOMAIN ops
    /\ ops[i].backend = "nss"
    /\ ops[i].op = "uninstall"
    /\ "certutil" \in env.bins

\* the profiles forEachNSSProfile discovers on the machine
Discovered ==
    {(IF env.profiles[p] \in {"cert9", "both"} THEN "sql:" ELSE "dbm:") \o NssCand[p] :
         p \in {q \in 1..Len(NssCand) : env.profiles[q] \in {"cert9", "cert8", "both"}}}

\* execution k is certutil with sub-command sub on profile db, the CA named
\* by its lookup key
CertutilOn(k, sub, db) ==
    /\ ToolOf(cmds[k].cmd.name) = "certutil"
    /\ Head(cmds[k].cmd.argv) = sub
    /\ ArgOf(cmds[k].cmd.argv, "-d") = db
    /\ ArgOf(cmds[k].cmd.argv, "-n") = Str(caUniqueName(caSerial))

\* the executions of operation o
Execs(o) == o.from..o.to

\* operation o ran the presence check on profile db
Visited(o, db) == \E k \in Execs(o) : CertutilOn(k, "-V", db)

\* operation o issued a delete on profile db
DeleteIssued(o, db) == \E k \in Execs(o) : CertutilOn(k, "-D", db)

\* the presence check of operation o found the CA in profile db
PresentIn(o, db) == \E k \in Execs(o) : CertutilOn(k, "-V", db) /\ ~Failed(k)

\* a delete of operation o failed for good: it failed and was not retried
DeleteFailed(o, k) ==
    /\ k \in Execs(o)
    /\ Head(cmds[k].cmd.argv) = "-D"
    /\ Failed(k)
    /\ ~Retried(o, k)

\* C18 as stated: an NSS Uninstall checks every discovered profile and
\* issues a delete for every one in which the CA is present, none where the
\* presence check fails; a delete that fails is a fatal command error.
C18_DeleteInEveryProfile ==
    \A i \in DOMAIN ops :
        NSSUninstall(i) =>
            \A db \in Discovered :
                /\ Visited(ops[i], db)
                /\ PresentIn(ops[i], db) <=> DeleteIssued(ops[i], db)

\* C18: an NSS Uninstall goes through the discovered profiles in order until
\* a delete fails.  In a profile it visits it issues the delete, by the CA's
\* lookup key, exactly if the presence check found the CA; a failed presence
\* check is no error.  A delete that fails is a fatal command error naming
\* the command, with its output, and ends the operation: the profiles after
\* it are not visited.  Without a failed delete every discovered profile is
\* visited and the operation succeeds with no error.
C18_DeleteUntilFailure ==
    \A i \in DOMAIN ops :
        NSSUninstall(i) =>
            /\ \A db \in Discovered :
                   /\ DeleteIssued(ops[i], db) <=> PresentIn(ops[i], db)
                   /\ DeleteIssued(ops[i], db) => Visited(ops[i], db)
            /\ \A k \in Execs(ops[i]) :
                   /\ \E db \in Discovered : CertutilOn(k, "-V", db) \/ CertutilOn(k, "-D", db)
                   /\ DeleteFailed(ops[i], k) => (k = ops[i].to /\ FatalFor(ops[i], k))
            /\ (\E k \in Execs(ops[i]) : DeleteFailed(ops[i], k))
                   \/ /\ ops[i].ok
                      /\ ops[i].err = Nil
                      /\ \A db \in Discovered : Visited(ops[i], db)

\* an uninstall on a machine with two profiles that hold the CA: the delete
\* in the first failed, the operation ended in its fatal error and the
\* second profile was not visited
C18_Witness ==
    \E i \in DOMAIN ops :
        /\ NSSUninstall(i)
        /\ Cardinality(Discovered) = 2
        /\ DeleteFailed(ops[i], ops[i].to)
        /\ ops[i].err.Fatal.set
        /\ \E db \in Discovered : ~Visited(ops[i], db) /\ nssdb[db] > 0

\* an uninstall deleted the CA from one profile and skipped the other, whose
\* presence check failed
C18_SkipReached ==
    \E i \in DOMAIN ops :
        /\ NSSUninstall(i)
        /\ ops[i].ok
        /\ \E d1, d2 \in Discovered :
               /\ DeleteIssued(ops[i], d1)
               /\ Visited(ops[i], d2) /\ ~DeleteIssued(ops[i], d2)


---------------------------------------------------------------------------
(* Java Uninstall *)

\* operation i is a Java Uninstall that ran keytool
JavaUninstall(i) ==
    /\ i \in DOMAIN ops
    /\ ops[i].backend = "java"
    /\ ops[i].op = "uninstall"
    /\ ops[i].from <= ops[i].to

\* the output of the last execution of operation o has the signature
DoesNotExist(o) == Contains(cmds[o.to].out, <<"does not exist">>)

\* C19: a Java Uninstall whose keytool output has "does not exist" returns
\* no error, reports nothing uninstalled and leaves the keystore as it was;
\* any other delete that fails is a fatal command error naming the command,
\* with its output; a delete that succeeds reports uninstalled.
C19_DoesNotExistIsNoOp ==
    \A i \in DOMAIN ops :
        JavaUninstall(i) =>
            /\ \A k \in Execs(ops[i]) :
                   ToolOf(cmds[k].cmd.name) = "keytool" /\ Head(cmds[k].cmd.argv) = "-delete"
            /\ IF DoesNotExist(ops[i])
               THEN ops[i].err = Nil /\ ~ops[i].ok /\ ~ops[i].changed
               ELSE IF Failed(ops[i].to)
               THEN FatalFor(ops[i], ops[i].to)
               ELSE ops[i].ok /\ ops[i].err = Nil

\* an uninstall on a machine whose keystore does not hold the CA: keytool
\* failed with "does not exist", Java reported no error and the process
\* went on to its end
C19_Witness ==
    \E i \in DOMAIN ops :
        /\ JavaUninstall(i)
        /\ Failed(ops[i].to)
        /\ DoesNotExist(ops[i])
        /\ ops[i].err = Nil
        /\ keystore = 0
        /\ pc = "idle" /\ exit = "ok"

\* an uninstall whose keytool -delete failed otherwise ended in the fatal
\* error
C19_FatalReached ==
    \E i \in DOMAIN ops :
        JavaUninstall(i) /\ ~DoesNotExist(ops[i]) /\ Failed(ops[i].to) /\ exit = "fatal"


---------------------------------------------------------------------------
(* Java without keytool *)

\* a Java home is configured and it has no keytool
NoKeytool == env.javaHome /\ ~env.keytool

\* the warning lines of the two operations
KeytoolWarning(op) ==
    IF op = "install"
    THEN "Warning: keytool is not available, so the CA can't be automatically installed"
    ELSE "Warning: keytool is not available, so the CA can't be automatically uninstalled"

\* C20: with a Java home and no keytool, a Java Install and a Java Uninstall
\* each return the keytool-missing warning of that operation and nothing
\* fatal, report not done, run no command, have the warning line of that
\* operation (and not the other's) logged, and do not end the process.
C20_NoKeytoolIsWarning ==
    \A i \in DOMAIN ops :
        (NoKeytool /\ ops[i].backend = "java" /\ ops[i].op \in {"install", "uninstall"}) =>
            /\ ops[i].err = WarningErr("error", ErrNoKeytool, ops[i].op)
            /\ ~ops[i].ok
            /\ CmdsOf(ops[i]) = {}
            /\ KeytoolWarning(ops[i].op) \in Range(out)
            /\ KeytoolWarning(IF ops[i].op = "install" THEN "uninstall" ELSE "install")
                   \notin Range(out)
            /\ ~(exitAt = "java" /\ exit \in {"fatal", "panic"})

\* an uninstall on a machine with a Java home and no keytool reached the
\* Java backend, logged the warning of uninstall and ended well
C20_Witness ==
    /\ NoKeytool
    /\ mode = "uninstall"
    /\ pc = "idle" /\ exit = "ok"
    /\ \E i \in DOMAIN ops : ops[i].backend = "java" /\ ops[i].op = "uninstall"
    /\ KeytoolWarning("uninstall") \in Range(out)

\* an install on the machine without keytool logged the warning of install
C20_InstallReached ==
    /\ NoKeytool
    /\ \E i \in DOMAIN ops : ops[i].backend = "java" /\ ops[i].op = "install"
    /\ KeytoolWarning("install") \in Range(out)
    /\ pc = "idle" /\ exit = "ok"


---------------------------------------------------------------------------
(* The system store without an anchor directory *)

\* none of the known anchor directories exists
NoAnchorDir == env.dirs = {}

\* the line that names where the root certificate can be installed from
ManualInstallLine ==
    "You can also manually install the root certificate at " \o JoinPath(CAROOT, rootName)

\* C21: when none of the known anchor directories exists, a system Install
\* reports not installed with the unsupported-distribution warning and no
\* fatal cause, the line naming the manual install path is logged, no
\* command runs and nothing is written; a system Uninstall runs no command,
\* reports not uninstalled and has no fatal cause; neither ends the process.
C21_NoAnchorDirIsWarning ==
    \A i \in DOMAIN ops :
        (NoAnchorDir /\ ops[i].backend = "sys" /\ ops[i].op \in {"install", "uninstall"}) =>
            /\ ~ops[i].ok
            /\ ops[i].err.Fatal = NoFatal
            /\ CmdsOf(ops[i]) = {}
            /\ ~ops[i].changed
            /\ ~(exitAt = "sys" /\ exit \in {"fatal", "panic"})
            /\ ops[i].op = "install" =>
                   /\ ops[i].err = WarningErr("PlatformError", ErrUnsupportedDistro, "install")
                   /\ ManualInstallLine \in Range(out)

\* an install on a machine without anchor directories went through the
\* system store and ended well, the manual install path logged
C21_Witness ==
    /\ NoAnchorDir
    /\ mode = "install"
    /\ pc = "idle" /\ exit = "ok"
    /\ \E i \in DOMAIN ops : ops[i].backend = "sys" /\ ops[i].op = "install"
    /\ ManualInstallLine \in Range(out)

\* an uninstall on a machine without anchor directories went through the
\* system store and ended well
C21_UninstallReached ==
    /\ NoAnchorDir
    /\ mode = "uninstall"
    /\ pc = "idle" /\ exit = "ok"
    /\ \E i \in DOMAIN ops : ops[i].backend = "sys" /\ ops[i].op = "uninstall"


---------------------------------------------------------------------------
(* System Install *)

\* the anchor file and the refresh command of each known directory, in the
\* fixed order, for the CA of this model
KnownAnchors ==
    << [file |-> "/etc/pki/ca-trust/source/anchors/mkcert_development_CA_7.pem",
        refresh |-> <<"update-ca-trust", "extract">>],
       [file |-> "/usr/local/share/ca-certificates/mkcert_development_CA_7.crt",
        refresh |-> <<"update-ca-certificates">>],
       [file |-> "/etc/ca-certificates/trust-source/anchors/mkcert_development_CA_7.crt",
        refresh |-> <<"trust", "extract-compat">>],
       [file |-> "/usr/share/pki/trust/anchors/mkcert_development_CA_7.pem",
        refresh |-> <<"update-ca-certificates">>] >>

\* the first of the known directories that exists
FirstAnchor == KnownAnchors[CHOOSE i \in env.dirs : \A j \in env.dirs : i <= j]

\* the i-th operation is a system Install on a machine with an anchor directory
SysInstall(i) ==
    /\ env.dirs # {}
    /\ ops[i].backend = "sys" /\ ops[i].op = "install"

\* the k-th command an operation ran
NthCmd(o, k) == cmds[o.from + k - 1]

\* the number of commands an operation ran
NumCmds(o) == o.to - o.from + 1

\* C22: a system Install first writes the CA, with tee, to the file of the
\* first existing anchor directory named by the unique name with '_' for every
\* space; the refresh command of that directory runs next, exactly when the
\* write succeeded, and nothing else runs; installed is reported exactly when
\* both succeeded.
C22_InstallWritesThenRefreshes ==
    \A i \in DOMAIN ops :
        SysInstall(i) =>
            /\ NumCmds(ops[i]) \in {1, 2}
            /\ NthCmd(ops[i], 1).cmd.name = "tee"
            /\ NthCmd(ops[i], 1).cmd.argv = <<FirstAnchor.file>>
            /\ NthCmd(ops[i], 1).cmd.stdin = "CERT"
            /\ NthCmd(ops[i], 1).err = "" <=> NumCmds(ops[i]) = 2
            /\ NthCmd(ops[i], 1).err = "" => ReadFile(files, FirstAnchor.file) = "CERT"
            /\ NumCmds(ops[i]) = 2 =>
                   <<NthCmd(ops[i], 2).cmd.name>> \o NthCmd(ops[i], 2).cmd.argv
                       = FirstAnchor.refresh
            /\ ops[i].ok <=> /\ NumCmds(ops[i]) = 2
                             /\ NthCmd(ops[i], 1).err = ""
                             /\ NthCmd(ops[i], 2).err = ""

\* on the machine with the first and the fourth directory, an install wrote
\* the CA and refreshed, and reported installed
C22_Witness ==
    /\ env.dirs = {1, 4}
    /\ \E i \in DOMAIN ops :
           /\ SysInstall(i)
           /\ ops[i].ok
           /\ NumCmds(ops[i]) = 2
    /\ pc = "idle" /\ exit = "ok"

\* a system Install whose write failed
C22_WriteFailedReached ==
    \E i \in DOMAIN ops : SysInstall(i) /\ NthCmd(ops[i], 1).err # ""

\* a system Install whose refresh failed after the write
C22_RefreshFailedReached ==
    \E i \in DOMAIN ops :
        SysInstall(i) /\ NumCmds(ops[i]) = 2 /\ NthCmd(ops[i], 2).err # ""


---------------------------------------------------------------------------
(* System Uninstall *)

\* the legacy file of each known directory, in the fixed order
LegacyAnchors ==
    << "/etc/pki/ca-trust/source/anchors/mkcert-rootCA.pem",
       "/usr/local/share/ca-certificates/mkcert-rootCA.crt",
       "/etc/ca-certificates/trust-source/anchors/mkcert-rootCA.crt",
       "/usr/share/pki/trust/anchors/mkcert-rootCA.pem" >>

\* the legacy file of the first of the known directories that exists
FirstLegacy == LegacyAnchors[CHOOSE i \in env.dirs : \A j \in env.dirs : i <= j]

\* the process is about to run the system Uninstall on a machine with an
\* anchor directory
SysUninstalling ==
    /\ pc = "sys" /\ mode = "uninstall"
    /\ storeEnabled("system")
    /\ env.dirs # {}

\* the commands the step ran, in order
Ran1 == SubSeq(cmds', Len(cmds) + 1, Len(cmds'))

\* the step ran rm -f on path p
Removes(p) ==
    \E k \in DOMAIN Ran1 : Ran1[k].cmd.name = "rm" /\ Ran1[k].cmd.argv = <<"-f", p>>

\* every command the step ran succeeded
AllRan == \A k \in DOMAIN Ran1 : Ran1[k].err = ""

\* the last command the step ran was the refresh command
Refreshed ==
    <<Ran1[Len(Ran1)].cmd.name>> \o Ran1[Len(Ran1)].cmd.argv = FirstAnchor.refresh

\* C23: a system Uninstall first runs rm -f on the unique-name file, whether
\* or not it is there; if that succeeded it runs rm -f on the legacy file
\* exactly when that file is present; if no removal failed it runs the refresh
\* command last, whether or not either file existed, and then neither file is
\* left; uninstalled is reported exactly when every command succeeded.
C23_UninstallRemovesThenRefreshes ==
    [][SysUninstalling =>
          /\ Ran1[1].cmd.name = "rm" /\ Ran1[1].cmd.argv = <<"-f", FirstAnchor.file>>
          /\ Ran1[1].err = "" =>
                 (Removes(FirstLegacy) <=> ReadFile(files, FirstLegacy) # "")
          /\ Ran1[1].err # "" => Len(Ran1) = 1
          /\ Removes(FirstLegacy) => Ran1[2].cmd.argv = <<"-f", FirstLegacy>>
          /\ (\A k \in DOMAIN Ran1 : Ran1[k].cmd.name = "rm" => Ran1[k].err = "")
                 => /\ Refreshed
                    /\ Len(Ran1) = 2 + (IF ReadFile(files, FirstLegacy) # "" THEN 1 ELSE 0)
                    /\ ReadFile(files', FirstAnchor.file) = ""
                    /\ ReadFile(files', FirstLegacy) = ""
          /\ ops'[Len(ops')].ok <=> (AllRan /\ Refreshed)]_vars

\* an uninstall found the legacy file and not the unique-name file, removed
\* the legacy file, refreshed, and reported uninstalled
C23_Witness ==
    /\ mode = "uninstall"
    /\ pc = "idle" /\ exit = "ok"
    /\ env.dirs # {}
    /\ \E i \in DOMAIN ops :
           /\ ops[i].backend = "sys" /\ ops[i].op = "uninstall" /\ ops[i].ok
           /\ NumCmds(ops[i]) = 3
           /\ NthCmd(ops[i], 2).cmd.argv = <<"-f", FirstLegacy>>
           /\ NthCmd(ops[i], 3).err = ""
    /\ ReadFile(files, FirstLegacy) = ""
    /\ hist["sys"] = <<"uninstall">>

\* an uninstall with neither file present refreshed all the same
C23_NothingToRemoveReached ==
    /\ hist["sys"] = <<"uninstall">>
    /\ ~sysTrust
    /\ \E i \in DOMAIN ops :
           /\ ops[i].backend = "sys" /\ ops[i].op = "uninstall" /\ ops[i].ok
           /\ NumCmds(ops[i]) = 2

\* an uninstall whose first removal failed
C23_RemoveFailedReached ==
    \E i \in DOMAIN ops :
        /\ ops[i].backend = "sys" /\ ops[i].op = "uninstall"
        /\ env.dirs # {}
        /\ NumCmds(ops[i]) = 1


---------------------------------------------------------------------------
(* NSS Install, the closing Check *)

\* the presence checks and the imports among the executions of operation o
Verifies(o) == {k \in Execs(o) : \E db \in Discovered : CertutilOn(k, "-V", db)}
Imports(o) == {k \in Execs(o) : \E db \in Discovered : CertutilOn(k, "-A", db)}

\* the imports of operation o succeeded: every discovered profile has an
\* import of o that did not fail, and there is a profile
Imported(o) ==
    /\ Discovered # {}
    /\ \A db \in Discovered : \E k \in Execs(o) : CertutilOn(k, "-A", db) /\ ~Failed(k)

\* C24: an NSS Install runs its presence checks after its imports and only
\* when the imports succeeded; it reports installed exactly when it ran
\* presence checks and none failed; when the imports succeeded and a presence
\* check failed it reports not installed with the unknown-NSS-install
\* warning and no fatal cause.
C24_InstalledOnlyIfRecheckFinds ==
    \A i \in DOMAIN ops :
        NSSInstall(i) =>
            /\ \A v \in Verifies(ops[i]) : \A a \in Imports(ops[i]) : a < v
            /\ Verifies(ops[i]) # {} <=> Imported(ops[i])
            /\ ops[i].ok <=> /\ Verifies(ops[i]) # {}
                             /\ \A v \in Verifies(ops[i]) : ~Failed(v)
            /\ (Imported(ops[i]) /\ \E v \in Verifies(ops[i]) : Failed(v)) =>
                   /\ ~ops[i].ok
                   /\ ops[i].err.Warning = [type |-> "error", err |-> "unknown NSS install"]
                   /\ ops[i].err.Fatal = NoFatal

\* an NSS Install imported the CA into its two profiles, the presence check
\* that followed failed, and the result was the warning
C24_Witness ==
    \E i \in DOMAIN ops :
        /\ NSSInstall(i)
        /\ Cardinality(Discovered) = 2
        /\ Imported(ops[i])
        /\ \E v \in Verifies(ops[i]) : Failed(v)
        /\ ~ops[i].ok
        /\ \A db \in Discovered : ReadFile(nssdb, db) > 0

\* an NSS Install whose closing Check found the CA in every profile
C24_InstalledReached ==
    \E i \in DOMAIN ops :
        /\ NSSInstall(i)
        /\ ops[i].ok
        /\ Cardinality(Verifies(ops[i])) = 2


---------------------------------------------------------------------------
(* execCertutil *)

\* call i of the process is a call of runner fn
CallOf(i, fn) == ops[i].backend = "tool" /\ ops[i].op = fn

\* the first execution of call o failed with signature sig in its output
FirstFailedWith(o, sig) ==
    /\ cmds[o.from].err # ""
    /\ \E k \in DOMAIN cmds[o.from].out : cmds[o.from].out[k] = sig

\* the second execution of call o went through the escalation: the same
\* tool and arguments, under sudo when the user is not the superuser and sudo
\* is there, as they are otherwise
Escalated(o) ==
    /\ cmds[o.to].cmd.name = o.cmd.name
    /\ cmds[o.to].cmd.argv = o.cmd.argv
    /\ cmds[o.to].cmd.sudo = (~env.uid0 /\ "sudo" \in env.bins)

C25_WindowsReached ==
    \E i \in DOMAIN ops :
        /\ CallOf(i, "execCertutil")
        /\ env.goos = "windows"
        /\ FirstFailedWith(ops[i], "SEC_ERROR_READ_ONLY")
        /\ NumCmds(ops[i]) = 1

\* a failure without the signature, not run again
C25_OtherFailureReached ==
    \E i \in DOMAIN ops :
        /\ CallOf(i, "execCertutil")
        /\ env.goos = "linux"
        /\ cmds[ops[i].from].err # ""
        /\ NumCmds(ops[i]) = 1

\* a second execution that failed with the signature again
C25_SecondFailedReached ==
    \E i \in DOMAIN ops :
        /\ CallOf(i, "execCertutil")
        /\ NumCmds(ops[i]) = 2
        /\ cmds[ops[i].to].err # ""
        /\ \E k \in DOMAIN cmds[ops[i].to].out : cmds[ops[i].to].out[k] = "SEC_ERROR_READ_ONLY"


---------------------------------------------------------------------------
(* execKeytool *)

\* C26: a call of execKeytool with the command of Install or Uninstall
\* executes it once as it is, with no environment forced on it; it executes
\* it a second time, through the escalation and with JAVA_HOME as its
\* environment, exactly when the first execution failed with
\* java.io.FileNotFoundException in its output and the OS is not Windows; a
\* first failure without the signature is what the call returns; there is no
\* third execution.
C26_KeytoolRetriedOnce ==
    \A i \in DOMAIN ops :
        CallOf(i, "execKeytool") =>
            /\ NumCmds(ops[i]) \in {1, 2}
            /\ cmds[ops[i].from].cmd = ops[i].cmd
            /\ ~cmds[ops[i].from].cmd.sudo /\ cmds[ops[i].from].cmd.env = <<>>
            /\ NumCmds(ops[i]) = 2 <=>
                   (FirstFailedWith(ops[i], "java.io.FileNotFoundException")
                        /\ env.goos # "windows")
            /\ NumCmds(ops[i]) = 2 =>
                   /\ Escalated(ops[i])
                   /\ cmds[ops[i].to].cmd.env = <<"JAVA_HOME=/jvm">>
            /\ NumCmds(ops[i]) = 1 =>
                   /\ ops[i].err = cmds[ops[i].from].err
                   /\ ops[i].out = cmds[ops[i].from].out
            /\ ops[i].out = cmds[ops[i].to].out
            /\ ops[i].err \in {cmds[ops[i].to].err, ErrNoSudo}

\* an import into the keystore only the superuser writes failed with the
\* signature, was run again under sudo with JAVA_HOME, and succeeded
C26_Witness ==
    \E i \in DOMAIN ops :
        /\ CallOf(i, "execKeytool")
        /\ Head(ops[i].cmd.argv) = "-importcert"
        /\ NumCmds(ops[i]) = 2
        /\ cmds[ops[i].to].cmd.sudo
        /\ cmds[ops[i].to].cmd.env = <<"JAVA_HOME=/jvm">>
        /\ ops[i].err = ""
        /\ keystore = 1

\* a failure of keytool without the signature, returned as it is
C26_OtherFailureReached ==
    \E i \in DOMAIN ops :
        /\ CallOf(i, "execKeytool")
        /\ env.goos = "linux"
        /\ cmds[ops[i].from].err # ""
        /\ ~FirstFailedWith(ops[i], "java.io.FileNotFoundException")
        /\ NumCmds(ops[i]) = 1
        /\ ops[i].err # ""

\* a failure with the signature on Windows, not run again
C26_WindowsReached ==
    \E i \in DOMAIN ops :
        /\ CallOf(i, "execKeytool")
        /\ env.goos = "windows"
        /\ FirstFailedWith(ops[i], "java.io.FileNotFoundException")
        /\ NumCmds(ops[i]) = 1


---------------------------------------------------------------------------
(* Keychain+plist Install: the temporary file *)

\* operation i is an Install of the keychain+plist strategy
DarwinInstall(i) == env.goos = "darwin" /\ ops[i].backend = "sys" /\ ops[i].op = "install"

\* the path on which the Install returned, read off its result
ReturnPath(o) ==
    CASE o.panic -> "panic"
      [] o.ok -> "success"
      [] o.err.Fatal.cmd = <<"security", "add-trusted-cert">> -> "add"
      [] o.err.Fatal.cmd = <<"security", "trust-settings-export">> -> "export"
      [] o.err.Fatal.cmd = <<"security", "trust-settings-import">> -> "import"
      [] o.err.Fatal.cause = "failed to create temp file" -> "temp"
      [] o.err.Fatal.cause = "failed to read trust settings" -> "read"
      [] o.err.Fatal.cause = "failed to parse trust settings" -> "parse"
      [] o.err.Fatal.cause = "ERROR: unsupported trust settings version" -> "version"
      [] o.err.Fatal.cause = "failed to serialize trust settings" -> "serialize"
      [] o.err.Fatal.cause = "failed to write trust settings" -> "write"
      [] OTHER -> "other"

\* the paths that come after the creation of the temporary file
PathsWithFile ==
    {"export", "read", "parse", "version", "serialize", "write", "import", "success", "panic"}

\* the Install handed the temporary file to security(1)
UsedTempFile(o) ==
    \E k \in Execs(o) :
        /\ Head(cmds[k].cmd.argv) = "trust-settings-export"
        /\ cmds[k].cmd.argv = <<"trust-settings-export", "-d", "/tmp/trust-settings1">>

\* an Install has returned on path p
Returned(p) == \E i \in DOMAIN ops : DarwinInstall(i) /\ ReturnPath(ops[i]) = p

\* C27: a keychain+plist Install returns on one of the known paths; on every
\* path after the creation of the temporary file (export failure, read,
\* parse, version, serialize, write, import failure, success, and a panic of
\* a type assertion) it has handed the file to the export and the file is
\* gone when it has returned.
C27_TempFileAlwaysRemoved ==
    \A i \in DOMAIN ops :
        DarwinInstall(i) =>
            /\ ReturnPath(ops[i]) \in PathsWithFile \cup {"add", "temp"}
            /\ ReturnPath(ops[i]) \in PathsWithFile =>
                   /\ UsedTempFile(ops[i])
                   /\ "/tmp/trust-settings1" \notin DOMAIN files
            /\ ReturnPath(ops[i]) \in {"add", "temp"} => ~UsedTempFile(ops[i])

\* an Install exported the trust settings, edited them, failed to import
\* them, and left no temporary file
C27_Witness ==
    /\ Returned("import")
    /\ exit = "fatal"
    /\ "/tmp/trust-settings1" \notin DOMAIN files

\* an Install that succeeded and left no temporary file
C27_SuccessReached ==
    /\ Returned("success")
    /\ exit = "ok"
    /\ "/tmp/trust-settings1" \notin DOMAIN files


---------------------------------------------------------------------------
(* Keychain+plist Install: the edit of the trust settings *)

\* the DER encoding of the subject of the CA
CASubjectDER ==
    <<"SEQUENCE", 2,
      "SET", "SEQUENCE", "OID O", "UTF8 mkcert development CA",
      "SET", "SEQUENCE", "OID CN", "UTF8 mkcert u@host">>

\* operation o got as far as writing the edited trust settings
Edited(o) == ReturnPath(o) \in {"import", "success"}

\* the trust-list entries in which the edited settings of o differ from the
\* exported ones
ChangedEntries(o) ==
    {k \in DOMAIN o.exported.trustList : o.edited.trustList[k] # o.exported.trustList[k]}

\* the entries of the exported trust list of o whose issuerName is the
\* encoded subject of the CA
Matching(o) ==
    {k \in DOMAIN o.exported.trustList :
        /\ o.exported.trustList[k].hasIssuer
        /\ o.exported.trustList[k].issuerName = CASubjectDER}

\* C28: the trust settings a keychain+plist Install writes for the import
\* have the version and the entries of the exported ones; at most one entry
\* differs; an entry that differs has an issuerName equal to the encoded
\* subject of the CA and differs in its trustSettings only, which are the
\* fixed record; after a successful import they are the admin trust settings.
C28_OnlyMatchingEntryEdited ==
    \A i \in DOMAIN ops :
        (DarwinInstall(i) /\ Edited(ops[i])) =>
            /\ ops[i].edited.trustVersion = ops[i].exported.trustVersion
            /\ DOMAIN ops[i].edited.trustList = DOMAIN ops[i].exported.trustList
            /\ Cardinality(ChangedEntries(ops[i])) <= 1
            /\ ChangedEntries(ops[i]) \subseteq Matching(ops[i])
            /\ \A k \in ChangedEntries(ops[i]) :
                   ops[i].edited.trustList[k] =
                       [ops[i].exported.trustList[k] EXCEPT
                           !.hasTrust = TRUE,
                           !.trustSettings =
                               << [kSecTrustSettingsPolicy |-> "KoZIhvdjZAED",
                                   kSecTrustSettingsPolicyName |-> "sslServer",
                                   kSecTrustSettingsResult |-> 1],
                                  [kSecTrustSettingsPolicy |-> "KoZIhvdjZAEC",
                                   kSecTrustSettingsPolicyName |-> "basicX509",
                                   kSecTrustSettingsResult |-> 1] >>]
            /\ ops[i].ok => files[AdminTrust] = ops[i].edited

\* an Install found the trust list with another authority, an entry without
\* issuerName and two entries of the CA's subject, and edited one of the two
C28_Witness ==
    \E i \in DOMAIN ops :
        /\ DarwinInstall(i) /\ ops[i].ok
        /\ DOMAIN ops[i].exported.trustList = {"ca", "corp", "bare", "old"}
        /\ Cardinality(Matching(ops[i])) = 2
        /\ Cardinality(ChangedEntries(ops[i])) = 1

\* the entry edited was the earlier one of the same subject, and the entry
\* of the CA just added was left without trust settings
C28_OtherEntryReached ==
    \E i \in DOMAIN ops :
        /\ DarwinInstall(i) /\ ops[i].ok
        /\ ChangedEntries(ops[i]) = {"old"}
        /\ ~ops[i].edited.trustList["ca"].hasTrust

\* an Install whose edit changed nothing: the CA's entry had the trust
\* settings already
C28_NoChangeReached ==
    \E i \in DOMAIN ops :
        /\ DarwinInstall(i) /\ ops[i].ok
        /\ ChangedEntries(ops[i]) = {}


---------------------------------------------------------------------------
(* SudoExec without sudo *)

\* the calls of the process that went through SudoExec: the direct ones, and
\* the calls of execCertutil and execKeytool that made a second execution
SudoCalls ==
    {i \in DOMAIN ops :
        \/ CallOf(i, "SudoExec")
        \/ (CallOf(i, "execCertutil") \/ CallOf(i, "execKeytool")) /\ NumCmds(ops[i]) = 2}

\* the process is not the superuser's and finds no sudo
NoEscalation == ~env.uid0 /\ "sudo" \notin env.bins

\* call i returned the missing-sudo warning
Warned(i) == ops[i].err = "no sudo"

\* C29: in a process that is not the superuser's and finds no sudo, the
\* call of SudoExec that returns the missing-sudo warning is the first one and
\* no other; every call of SudoExec executes its command once, as it was
\* given, and a call after the first returns the error of that execution.
\* With the superuser or with sudo the warning is never returned.
C29_SudoWarningOnce ==
    /\ NoEscalation =>
           \A i \in SudoCalls :
               /\ Warned(i) <=> (\A j \in SudoCalls : i <= j)
               /\ CallOf(i, "SudoExec") => NumCmds(ops[i]) = 1
               /\ cmds[ops[i].to].cmd.name = ops[i].cmd.name
               /\ cmds[ops[i].to].cmd.argv = ops[i].cmd.argv
               /\ ~cmds[ops[i].to].cmd.sudo
               /\ ~Warned(i) => ops[i].err = cmds[ops[i].to].err
               /\ ops[i].out = cmds[ops[i].to].out
    /\ ~NoEscalation => \A i \in DOMAIN ops : ops[i].backend = "tool" => ~Warned(i)

\* three calls through SudoExec in one process without sudo: the first
\* warned, the second and the third did not
C29_Witness ==
    /\ NoEscalation
    /\ SudoCalls = {1, 2, 3}
    /\ CallOf(1, "SudoExec") /\ CallOf(2, "SudoExec")
    /\ Warned(1) /\ ~Warned(2) /\ ~Warned(3)
    /\ Len(cmds) >= 3

\* the first call through SudoExec was the second execution of execCertutil
C29_RetryFirstReached ==
    /\ NoEscalation
    /\ \E i \in SudoCalls : CallOf(i, "execCertutil") /\ Warned(i)
    /\ \E i \in SudoCalls : CallOf(i, "SudoExec") /\ ~Warned(i)


---------------------------------------------------------------------------
(* The goroutines of one process ask the discoveries *)

\* the calls of the discoveries the goroutines up to g have made
RECURSIVE CallsMade(_)
CallsMade(g) == IF g = 0 THEN 0 ELSE gor[g].calls + CallsMade(g - 1)

\* what a goroutine's step leaves alone
GoFrame ==
    UNCHANGED <<env, files, sysTrust, nssdb, keystore, pc, mode, stores, args, input,
                warning, ignoreCheckFailure, sudoWarned, faultKind, faultLeft, cmds,
                out, ops, exit, exitAt, issued, hist, runs>>

\* how a call got through Do: done was set when it came, it ran the
\* function, or it found done set under the mutex
PathOf(p, next, was) ==
    IF p = "Do" /\ next = "return" THEN "fast"
    ELSE IF p = "Lock" /\ next = "f" THEN "ran"
    ELSE IF p = "Lock" /\ next = "Unlock" THEN "waited"
    ELSE was

InitOnce == Boot(Machines, <<>>)

\* HasJava, HasKeytool, HasNSS, HasCertutil: a goroutine calls one of them,
\* which calls the discovery of its backend
GoCall ==
    \E g \in Goroutines, fn \in Callers :
        /\ gor[g].pc = "idle"
        /\ CallsMade(MaxGo) < MaxInit
        /\ gor' = [gor EXCEPT ![g] = [pc |-> "Do", fn |-> fn, calls |-> @.calls + 1,
                                      ret |-> <<>>, path |-> ""]]
        /\ UNCHANGED <<once, linux>>
        /\ GoFrame

\* a goroutine inside Do takes its next step; the function of InitNSS
\* begins with s.InitPlatform()
DoStep ==
    \E g \in Goroutines :
        /\ gor[g].pc \in {"Do", "Lock", "f", "Store", "Unlock"}
        /\ \E r \in {Do(once[BackendOf(gor[g].fn)], g, gor[g].pc, Body(BackendOf(gor[g].fn)))} :
               /\ r.can
               /\ once' = [once EXCEPT ![BackendOf(gor[g].fn)] = r.o]
               /\ gor' = [gor EXCEPT ![g].pc = r.pc,
                                     ![g].path = PathOf(gor[g].pc, r.pc, @)]
               /\ linux' = IF BackendOf(gor[g].fn) = "nss" /\ gor[g].pc = "Lock" /\ r.pc = "f"
                           THEN RunInitPlatform(linux, env) ELSE linux
        /\ GoFrame

\* the discovery has returned: the caller returns its package variable
GoReturn ==
    \E g \in Goroutines :
        /\ gor[g].pc = "return"
        /\ gor' = [gor EXCEPT ![g].pc = "idle",
                              ![g].ret = [val |-> once[BackendOf(gor[g].fn)].pkg[Returns(gor[g].fn)],
                                          path |-> gor[g].path]]
        /\ UNCHANGED <<once, linux>>
        /\ GoFrame

NextOnce == GoCall \/ DoStep \/ GoReturn

SpecOnce == InitOnce /\ [][NextOnce]_vars

---------------------------------------------------------------------------
(* Properties: the discoveries run once *)

\* what the discovery of a backend finds on the machine
Found(b) == IF b = "java" THEN InitJava(env) ELSE InitNSS(env)

\* the function of backend b has run to its end
RanToEnd(b) == once[b].runs > 0 /\ once[b].at = Len(Body(b)) /\ once[b].done

\* C30: whatever the interleaving of the goroutines that call a backend's
\* discovery, its function runs at most once in the process, a call of the
\* discovery returns only after that one run has come to its end, and the
\* caller then returns what the discovery finds on the machine
C30_DiscoveryRunsOnce ==
    /\ \A b \in {"java", "nss"} : once[b].runs <= 1
    /\ \A g \in Goroutines :
           /\ gor[g].pc = "return" =>
                  /\ once[BackendOf(gor[g].fn)].runs = 1
                  /\ RanToEnd(BackendOf(gor[g].fn))
           /\ gor[g].pc = "idle" /\ gor[g].ret # <<>> =>
                  gor[g].ret.val = Found(BackendOf(gor[g].fn))[Returns(gor[g].fn)]

\* two goroutines came to the same discovery before it had run: one ran the
\* function, the other found done unset, waited for the mutex and returned
\* after it
C30_Witness ==
    \E g, h \in Goroutines :
        /\ g # h
        /\ BackendOf(gor[g].fn) = BackendOf(gor[h].fn)
        /\ gor[g].pc = "idle" /\ gor[g].ret # <<>> /\ gor[g].ret.path = "ran"
        /\ gor[h].pc = "idle" /\ gor[h].ret # <<>> /\ gor[h].ret.path = "waited"
        /\ gor[h].ret.val

\* a goroutine waits for the mutex while another is inside the function
C30_BlockedReached ==
    \E g, h \in Goroutines :
        /\ gor[g].pc = "f" /\ gor[h].pc = "Lock"
        /\ BackendOf(gor[g].fn) = BackendOf(gor[h].fn)
        /\ once[BackendOf(gor[g].fn)].at > 0
        /\ once[BackendOf(gor[g].fn)].at < Len(Body(BackendOf(gor[g].fn)))

\* a later call finds done set and returns at once
C30_FastReached ==
    \E g \in Goroutines :
        gor[g].pc = "idle" /\ gor[g].ret # <<>> /\ gor[g].ret.path = "fast"


---------------------------------------------------------------------------
(* One process calls the backends in any order *)

\* calls of the backends in one process
DiscInits == {"InitJava", "InitNSS", "InitPlatform"} \cup Callers
DiscBackend(fn) ==
    IF fn \in {"InitJava", "HasJava", "HasKeytool"} THEN "java"
    ELSE IF fn = "InitPlatform" THEN "sys" ELSE "nss"

RECURSIVE RunDo(_, _, _)
\* Do from position p to its return when no other goroutine is inside it
RunDo(o, p, f) ==
    IF p = "return" THEN o
    ELSE Bind(Do(o, 1, p, f), LAMBDA r : RunDo(r.o, r.pc, f))

\* the NSS backend as the package variables describe it
NSSVars ==
    [hasNSS |-> once["nss"].pkg.hasNSS, hasCertutil |-> once["nss"].pkg.hasCertutil,
     certutilPath |-> once["nss"].pkg.certutilPath,
     CertutilInstallHelp |-> linux.vars.CertutilInstallHelp]

\* the note of an initialization call
InitCall(fn) ==
    [backend |-> DiscBackend(fn), op |-> fn, ok |-> TRUE, err |-> Nil,
     from |-> Len(cmds) + 1, to |-> Len(cmds), changed |-> FALSE]

InitDisc == BootTrusted({Workstation, Container, Bare, Fresh}, UsedRoot, FALSE)

\* what a call leaves alone
DiscFrame ==
    UNCHANGED <<mode, stores, args, input, warning, ignoreCheckFailure,
                faultKind, issued, hist, runs, gor>>

\* InitJava, InitNSS, InitPlatform and the callers of the first two
CallInit ==
    \E fn \in DiscInits :
        /\ pc = "idle" /\ Len(ops) < MaxCalls
        /\ once' = IF DiscBackend(fn) = "sys" THEN once
                   ELSE [once EXCEPT ![DiscBackend(fn)] =
                                         RunDo(@, "Do", Body(DiscBackend(fn)))]
        /\ linux' = IF \/ DiscBackend(fn) = "sys"
                       \/ DiscBackend(fn) = "nss" /\ ~once["nss"].done
                    THEN RunInitPlatform(linux, env) ELSE linux
        /\ Move(Cur, <<InitCall(fn)>>, <<>>, "", "idle")
        /\ UNCHANGED env
        /\ DiscFrame

\* InstallPlatform, UninstallPlatform: s.InitPlatform(), then the operation
\* with what the package variables hold
CallPlatform ==
    \E op \in {"install", "uninstall"} :
        /\ pc = "idle" /\ Len(ops) < MaxCalls
        /\ \E l \in {RunInitPlatform(linux, env)} :
               /\ linux' = l
               /\ \E r \in {IF op = "install" THEN InstallPlatform(Cur, l.vars)
                            ELSE UninstallPlatform(Cur, l.vars)} :
                      Move(r.s, <<Op("sys", op, Cur, r)>>, <<>>, "", "idle")
        /\ UNCHANGED <<env, once>>
        /\ DiscFrame

\* CheckNSS, InstallNSS, UninstallNSS with what the package variables hold
CallNSS ==
    \E op \in {"check", "install", "uninstall"} :
        /\ pc = "idle" /\ Len(ops) < MaxCalls
        /\ \E r \in {CASE op = "check" -> CheckNSS(Cur, NSSVars)
                       [] op = "install" -> InstallNSS(Cur, NSSVars)
                       [] OTHER -> UninstallNSS(Cur, NSSVars)} :
               Move(r.s, <<Op("nss", op, Cur, r)>>, <<>>, "", "idle")
        /\ UNCHANGED <<env, once, linux>>
        /\ DiscFrame

\* CheckJava, InstallJava, UninstallJava with what the package variables hold
CallJava ==
    \E op \in {"check", "install", "uninstall"} :
        /\ pc = "idle" /\ Len(ops) < MaxCalls
        /\ \E r \in {CASE op = "check" -> CheckJava(Cur, once["java"].pkg)
                       [] op = "install" -> InstallJava(Cur, once["java"].pkg)
                       [] OTHER -> UninstallJava(Cur, once["java"].pkg)} :
               Move(r.s, <<Op("java", op, Cur, r)>>, <<>>, "", "idle")
        /\ UNCHANGED <<env, once, linux>>
        /\ DiscFrame

\* the machine changes while the process runs: an anchor directory appears
Provision ==
    \E d \in 1..4 :
        /\ pc = "idle" /\ d \notin env.dirs
        /\ Len(ops) > 0 /\ Len(ops) < MaxCalls
        /\ env' = [env EXCEPT !.dirs = @ \cup {d}]
        /\ UNCHANGED <<once, linux, files, sysTrust, nssdb, keystore, pc, sudoWarned,
                       faultLeft, cmds, out, ops, exit, exitAt>>
        /\ DiscFrame

NextDisc == CallInit \/ CallPlatform \/ CallNSS \/ CallJava \/ Provision

SpecDisc == InitDisc /\ [][NextDisc]_vars

---------------------------------------------------------------------------
(* Properties: the discovery state after its first computation *)

\* C31: once the discovery state of a backend has been computed in a
\* process, no later call of the process writes to it: the package
\* variables of the platform, of NSS and of Java are assigned no second time
C31_DiscoveryWrittenOnce ==
    [][/\ linux.writes > 0 => linux' = linux
       /\ \A b \in {"nss", "java"} : once[b].runs > 0 => once'[b] = once[b]]_vars

\* the package variables of NSS and Java stay as first computed
C31_OnceGuardedKept ==
    [][\A b \in {"nss", "java"} : once[b].runs > 0 => once'[b] = once[b]]_vars

\* the platform's variables have been assigned twice and differ from what
\* the first computation gave
C31_PlatformChangedReached ==
    /\ linux.writes = 2
    /\ \E i \in 1..Len(ops) :
           /\ ops[i].backend = "sys" /\ ops[i].op = "install" /\ ops[i].ok
           /\ \E j \in 1..(i - 1) : ops[j].op = "InitNSS"
    /\ linux.vars.SystemTrustFilename[1] = AnchorDir[1]
    /\ 2 \in env.dirs


---------------------------------------------------------------------------
(* Properties: the profiles the NSS iteration passes to the operation *)

\* the address under which candidate p is passed on, by what it is
AddressOf(p) ==
    CASE env.profiles[p] = "cert9" -> "sql:" \o NssCand[p]
      [] env.profiles[p] = "both" -> "sql:" \o NssCand[p]
      [] env.profiles[p] = "cert8" -> "dbm:" \o NssCand[p]
      [] OTHER -> ""

\* execution k is certutil on candidate p, under whatever prefix
OnCandidate(k, p) ==
    /\ ToolOf(cmds[k].cmd.name) = "certutil"
    /\ ArgOf(cmds[k].cmd.argv, "-d") \in {"sql:" \o NssCand[p], "dbm:" \o NssCand[p]}

\* C32: every certutil execution of an NSS operation is on a candidate
\* that is a directory with cert9.db or cert8.db, addressed sql: when it has
\* cert9.db (cert8.db or not) and dbm: when it has cert8.db only; a Check
\* validates a candidate at most once; a machine whose candidates all lack
\* the marker files gets no certutil execution and its Check finds nothing
C32_OnlyMarkedProfilesVisited ==
    /\ \A k \in DOMAIN cmds : \A p \in 1..Len(NssCand) :
           OnCandidate(k, p) =>
               /\ env.profiles[p] \in {"cert9", "cert8", "both"}
               /\ ArgOf(cmds[k].cmd.argv, "-d") = AddressOf(p)
    /\ \A i \in DOMAIN ops :
           NSSCheck(i) =>
               /\ \A p \in 1..Len(NssCand) :
                      Cardinality({k \in Execs(ops[i]) : OnCandidate(k, p)}) <= 1
               /\ (\A p \in 1..Len(NssCand) : AddressOf(p) = "") =>
                      Execs(ops[i]) = {} /\ ~ops[i].ok

\* a Check on a machine with a bare directory and a directory holding both
\* database files: it validated the second under sql: and found the CA
C32_Witness ==
    \E i \in DOMAIN ops : \E p, q \in 1..Len(NssCand) :
        /\ NSSCheck(i) /\ ops[i].ok
        /\ env.profiles[q] = "dir" /\ env.profiles[p] = "both"
        /\ \E k \in Execs(ops[i]) : CertutilOn(k, "-V", "sql:" \o NssCand[p])

\* a Check validated a cert8.db-only profile under dbm:
C32_DbmReached ==
    \E i \in DOMAIN ops : \E p \in 1..Len(NssCand) :
        /\ NSSCheck(i) /\ env.profiles[p] = "cert8"
        /\ \E k \in Execs(ops[i]) : CertutilOn(k, "-V", "dbm:" \o NssCand[p])

\* certutil is there, a candidate exists as a file only: the Check ran
\* nothing and found nothing
C32_UnmarkedReached ==
    \E i \in DOMAIN ops :
        /\ NSSCheck(i) /\ "certutil" \in env.bins
        /\ \E p \in 1..Len(NssCand) : env.profiles[p] = "file"
        /\ Execs(ops[i]) = {} /\ ~ops[i].ok


---------------------------------------------------------------------------
(* Several NSS profiles, one of which the user cannot write *)

\* no sudo, not the superuser: the user's database, the system database
\* (read-only for the user) and a Firefox profile
Locked ==
    [NoSudo EXCEPT !.profiles = <<"cert9", "missing", "both", "cert8">>, !.roProfiles = {3}]

InitProfiles == Boot({Locked, Workstation, Container}, UsedRoot)

\* processes with TRUST_STORES=nss; certutil's validation or import may be
\* stubbed to fail
StartProfiles ==
    \E m \in Modes, n \in 1..MaxFail,
       fk \in {NoFault} \cup {f \in Faults : f.name = "certutil" /\ f.op \in {"-V", "-A"}} :
        /\ runs < MaxCA
        /\ fk = NoFault => n = 1
        /\ StartRun(m, <<"nss">>, IF m = "install" THEN <<>> ELSE <<example>>, fk, n)

NextProfiles == StartProfiles \/ Steps

SpecProfiles == InitProfiles /\ [][NextProfiles]_vars

---------------------------------------------------------------------------
(* Properties: NSS Check over several profiles *)

\* the discovered profiles in the order forEachNSSProfile visits them
RECURSIVE ProfilesFrom(_)
ProfilesFrom(p) ==
    IF p > Len(NssCand) THEN <<>>
    ELSE (IF AddressOf(p) = "" THEN <<>> ELSE <<AddressOf(p)>>) \o ProfilesFrom(p + 1)

\* operation o validated profile db and certutil -V exited zero
Validated(o, db) == \E k \in Execs(o) : CertutilOn(k, "-V", db) /\ ~Failed(k)

\* C33: an NSS Check is true exactly when certutil is available, a profile
\* is discovered and certutil -V succeeded on every discovered profile; a
\* failed validation is the last execution of the Check, so the profiles
\* after it are not validated, and the Check is false whatever the
\* profiles before it hold
C33_CheckNeedsEveryProfile ==
    \A i \in DOMAIN ops :
        NSSCheck(i) =>
            /\ ops[i].ok <=> /\ "certutil" \in env.bins
                             /\ ProfilesFrom(1) # <<>>
                             /\ \A j \in DOMAIN ProfilesFrom(1) :
                                    Validated(ops[i], ProfilesFrom(1)[j])
            /\ ops[i].err = Nil
            /\ \A k \in Execs(ops[i]) : Failed(k) => k = ops[i].to /\ ~ops[i].ok

\* the first profile holds the CA and the second does not: the Check
\* validated the first, failed on the second, left the third alone and is
\* false
C33_Witness ==
    \E i \in DOMAIN ops :
        /\ NSSCheck(i) /\ ~ops[i].ok
        /\ Len(ProfilesFrom(1)) = 3
        /\ Validated(ops[i], ProfilesFrom(1)[1])
        /\ \E k \in Execs(ops[i]) : CertutilOn(k, "-V", ProfilesFrom(1)[2]) /\ Failed(k)
        /\ \A k \in Execs(ops[i]) : ~CertutilOn(k, "-V", ProfilesFrom(1)[3])
        /\ faultKind = NoFault

\* a Check found the CA in each of several profiles
C33_AllHoldReached ==
    \E i \in DOMAIN ops :
        /\ NSSCheck(i) /\ ops[i].ok
        /\ Len(ProfilesFrom(1)) >= 2


---------------------------------------------------------------------------
(* Properties: NSS Install over several profiles *)

\* the place of profile db in the discovery order, 0 when it has none
PlaceOf(db) ==
    IF \E j \in DOMAIN ProfilesFrom(1) : ProfilesFrom(1)[j] = db
    THEN CHOOSE j \in DOMAIN ProfilesFrom(1) : ProfilesFrom(1)[j] = db
    ELSE 0

\* the place of the profile execution k is on
PlaceAt(k) == PlaceOf(ArgOf(cmds[k].cmd.argv, "-d"))

\* operation o ended on a failed import
ImportFailed(o) ==
    /\ o.to >= o.from
    /\ Head(cmds[o.to].cmd.argv) = "-A"
    /\ Failed(o.to)

\* C34: an NSS Install imports into the discovered profiles in discovery
\* order; when an import fails it stops: the profiles before that one have
\* been imported into and hold the CA, the profiles after it got no
\* execution, and the result is not installed with the fatal error of that
\* import ("certutil -A -d <profile>"), not the no-database warning
C34_InstallStopsAtFailedImport ==
    \A i \in DOMAIN ops :
        NSSInstall(i) =>
            /\ \A k, l \in Imports(ops[i]) : k < l => PlaceAt(k) <= PlaceAt(l)
            /\ ImportFailed(ops[i]) =>
                   /\ ~ops[i].ok
                   /\ ops[i].err.Warning = NoWarning
                   /\ ops[i].err.Fatal.set
                   /\ ops[i].err.Fatal.cmd
                          = <<"certutil", "-A", "-d", ProfilesFrom(1)[PlaceAt(ops[i].to)]>>
                   /\ \A j \in DOMAIN ProfilesFrom(1) :
                          /\ j < PlaceAt(ops[i].to) =>
                                 /\ \E k \in Execs(ops[i]) :
                                        CertutilOn(k, "-A", ProfilesFrom(1)[j]) /\ ~Failed(k)
                                 /\ ReadFile(nssdb, ProfilesFrom(1)[j]) > 0
                          /\ j > PlaceAt(ops[i].to) =>
                                 \A k \in Execs(ops[i]) : PlaceAt(k) # j
            /\ (ops[i].err.Fatal.set /\ "certutil" \in env.bins) => ImportFailed(ops[i])

\* the import into the second of three profiles failed: the first holds
\* the CA, the third got no execution, the result is the fatal error
C34_Witness ==
    \E i \in DOMAIN ops :
        /\ NSSInstall(i)
        /\ ImportFailed(ops[i])
        /\ Len(ProfilesFrom(1)) = 3
        /\ PlaceAt(ops[i].to) = 2
        /\ ReadFile(nssdb, ProfilesFrom(1)[1]) > 0
        /\ \A k \in Execs(ops[i]) : PlaceAt(k) # 3
        /\ ops[i].err.Fatal.set

\* the import into the first profile failed, as the stubbed certutil of the
\* test makes it
C34_FirstFailedReached ==
    \E i \in DOMAIN ops :
        /\ NSSInstall(i)
        /\ ImportFailed(ops[i])
        /\ PlaceAt(ops[i].to) = 1
        /\ faultKind.name = "certutil"


---------------------------------------------------------------------------
(* Platform.InstallCA and Platform.UninstallCA over any check and operation *)

\* what Platform.check may report
CheckErrs == {"", ErrUnsupportedDistro, "check failed"}

\* what installCA and uninstallCA may return: done, nothing to do, a fatal
\* command error, a plain error, a warning
Outcomes ==
    {[ok |-> TRUE, err |-> Nil], [ok |-> FALSE, err |-> Nil],
     [ok |-> FALSE, err |-> fatalCmdErr(ExitErr, <<"tee">>, <<"tee:", "stub failure">>)],
     [ok |-> FALSE, err |-> PlainErr("failed to read root certificate")],
     [ok |-> FALSE, err |-> WarningErr("PlatformError", ErrNoSudo, "")]}

\* the note of a call: what the check and the operation gave, what the call
\* returned
Wrapped(op, cerr, u, r) ==
    [backend |-> "sys", op |-> op, cerr |-> cerr, under |-> u, ok |-> r.ok, err |-> r.err]

InitWrap == BootTrusted({Workstation}, UsedRoot, FALSE)

CallInstallCA ==
    \E cerr \in CheckErrs, u \in Outcomes :
        /\ pc = "idle" /\ Len(ops) < MaxCalls
        /\ \E r \in {deferred("install", cerr, Res(u.ok, u.err, Cur))} :
               Move(r.s, <<Wrapped("install", cerr, u, r)>>, <<>>, "", "idle")
        /\ UNCHANGED <<env, once, linux>>
        /\ DiscFrame

CallUninstallCA ==
    \E cerr \in CheckErrs, u \in Outcomes :
        /\ pc = "idle" /\ Len(ops) < MaxCalls
        /\ \E r \in {deferred("uninstall", cerr, Res(u.ok, u.err, Cur))} :
               Move(r.s, <<Wrapped("uninstall", cerr, u, r)>>, <<>>, "", "idle")
        /\ UNCHANGED <<env, once, linux>>
        /\ DiscFrame

NextWrap == CallInstallCA \/ CallUninstallCA

SpecWrap == InitWrap /\ [][NextWrap]_vars

\* C35: Platform.InstallCA and Platform.UninstallCA return what the
\* operation returned when the check reported no error; when it reported
\* one they return, whatever the operation's error was, an error that is
\* the warning of that check error tagged with the operation and has no
\* fatal cause
C35_CheckErrorReplacesError ==
    \A i \in DOMAIN ops :
        /\ ops[i].ok = ops[i].under.ok
        /\ ops[i].cerr = "" => ops[i].err = ops[i].under.err
        /\ ops[i].cerr # "" =>
               /\ ops[i].err.Fatal = NoFatal
               /\ ops[i].err.Warning = [type |-> "PlatformError", err |-> ops[i].cerr]
               /\ ops[i].err.Op = ops[i].op

\* the check reported an error and the install failed fatally: the call
\* returned the warning
C35_Witness ==
    \E i \in DOMAIN ops :
        /\ ops[i].op = "install"
        /\ ops[i].cerr = ErrUnsupportedDistro
        /\ ops[i].under.err.Fatal.set
        /\ ops[i].err = WarningErr("PlatformError", ErrUnsupportedDistro, "install")

\* the check reported no error and the uninstall failed fatally: the call
\* returned that error
C35_FatalPropagatedReached ==
    \E i \in DOMAIN ops :
        /\ ops[i].op = "uninstall"
        /\ ops[i].cerr = ""
        /\ ops[i].under.err.Fatal.set
        /\ ops[i].err = ops[i].under.err


---------------------------------------------------------------------------
(* SudoExec without sudo: the error of a command that succeeded *)

\* C36: in a process that is not the superuser's and finds no sudo, a call
\* of SudoExec returns an error only if the command it executed failed: a
\* command that succeeded gives a nil error on the first call as on later ones
C36_SudoErrorOnlyOnFailure ==
    NoEscalation =>
        \A i \in SudoCalls :
            CallOf(i, "SudoExec") => (ops[i].err # "" => Failed(ops[i].to))

\* the first call of SudoExec in a process without sudo executed a command
\* that succeeded and returned the missing-sudo warning as its error
C36_WarnedSuccessReached ==
    /\ NoEscalation
    /\ \E i \in SudoCalls :
           /\ CallOf(i, "SudoExec")
           /\ ~Failed(ops[i].to) /\ ops[i].changed
           /\ Warned(i)

\* a later call of SudoExec in such a process executed a command that
\* succeeded and returned no error
C36_LaterSuccessReached ==
    /\ NoEscalation
    /\ \E i \in SudoCalls :
           /\ CallOf(i, "SudoExec")
           /\ ~Failed(ops[i].to)
           /\ ops[i].err = ""


---------------------------------------------------------------------------
(* NSS discovery on a Mac *)

\* Macs with certutil on the PATH or not, at the Homebrew default path or
\* not, under the prefix brew prints or not, and every kind of brew
BrewMacs ==
    {[Mac EXCEPT !.bins = b, !.brew = w, !.certutils = c] :
         b \in {{"sudo"}, {"sudo", "certutil"}},
         w \in {"none", "fails", "partial", "ok"},
         c \in SUBSET {HomebrewCertutil, JoinBin(BrewPrefix)}}

InitBrew == BootTrusted(BrewMacs, UsedRoot, FALSE)

NextBrew == CallInit \/ CallNSS

SpecBrew == InitBrew /\ [][NextBrew]_vars

\* the discovery of NSS has run on a Mac that has certutil neither on the
\* PATH nor at the Homebrew default path
BrewAsked ==
    /\ env.goos = "darwin"
    /\ once["nss"].done
    /\ "certutil" \notin env.bins
    /\ "/usr/local/opt/nss/bin/certutil" \notin env.certutils

\* C37: after NSS discovery on a Mac without certutil on the PATH and at
\* the Homebrew default path, certutil is available only if brew --prefix
\* nss succeeded and bin/certutil exists under the prefix it printed; when
\* brew failed certutil is unavailable, the path is unset and no command
\* runs under a path made from brew's output
C37_BrewDecidesCertutil ==
    BrewAsked =>
        /\ once["nss"].pkg.hasCertutil =>
               /\ env.brew = "ok"
               /\ "/opt/homebrew/opt/nss/bin/certutil" \in env.certutils
        /\ env.brew # "ok" =>
               /\ ~once["nss"].pkg.hasCertutil
               /\ once["nss"].pkg.certutilPath = ""
               /\ \A k \in DOMAIN cmds : cmds[k].cmd.name = "/usr/bin/certutil"

\* brew printed the prefix and failed: certutil under the prefix is taken
\* as available and a Check has executed it
C37_FailedBrewUsedReached ==
    /\ BrewAsked
    /\ env.brew = "partial"
    /\ once["nss"].pkg.hasCertutil
    /\ \E k \in DOMAIN cmds : cmds[k].cmd.name = "/opt/homebrew/opt/nss/bin/certutil"

\* brew succeeded and certutil exists under the prefix it printed: certutil
\* is not available
C37_GoodBrewIgnoredReached ==
    /\ BrewAsked
    /\ env.brew = "ok"
    /\ "/opt/homebrew/opt/nss/bin/certutil" \in env.certutils
    /\ ~once["nss"].pkg.hasCertutil
    /\ once["nss"].pkg.certutilPath = ""
    /\ \E i \in DOMAIN ops : ops[i].op = "HasCertutil"

\* certutil at the Homebrew default path is taken without asking brew
C37_DefaultPathReached ==
    /\ env.goos = "darwin" /\ once["nss"].done
    /\ "certutil" \notin env.bins
    /\ once["nss"].pkg.hasCertutil
    /\ once["nss"].pkg.certutilPath = "/usr/local/opt/nss/bin/certutil"

====
